---------------------------- MODULE Spec2Model ----------------------------
(***************************************************************************)
(* Pedestrian-casualty aggregation scripts of the repository:              *)
(*   pedestrian_analysis_consolidated.py  (coarse categories, no years)    *)
(*   yearly_trends_analysis.py            (coarse categories, per year,    *)
(*                                         2025 projection)                *)
(*   bike_vs_ebike_analysis.py            (bike types, per year >= 2020,   *)
(*                                         2025 projection)                *)
(*   pedestrian_analysis.py               (raw vehicle names, cleaned      *)
(*                                         names; VehicleSpec)             *)
(*   casualty_rate_analysis.py            (casualties per ridership;       *)
(*                                         RateSpec)                       *)
(*   analyze_bicycle_counts.py, yearly_ridership.py  (ridership sums)      *)
(* Each script is a linear batch job: load -> filter -> fold rows -> done. *)
(*                                                                         *)
(* Numbers: Python's int/float tallies are modelled as exact rationals     *)
(* <<num, den>> in lowest terms, the values the floats stand for.  The     *)
(* consolidated script's table is also kept with the binary64 values       *)
(* Python computes (category_casualties_64).                               *)
(***************************************************************************)
EXTENDS Integers, Sequences, FiniteSets, TLC

-----------------------------------------------------------------------------
(* Exact rational arithmetic (the value domain of injured / killed).       *)

Abs(x) == IF x < 0 THEN -x ELSE x

RECURSIVE GCD(_, _)
GCD(a, b) == IF b = 0 THEN a ELSE GCD(b, a % b)

\* a rational in lowest terms with a positive denominator
Norm(n, d) ==
    LET g == GCD(Abs(n), Abs(d))
        s == IF d < 0 THEN -1 ELSE 1
    IN  [num |-> (s * n) \div g, den |-> (s * d) \div g]

R(n) == [num |-> n, den |-> 1]
Zero == R(0)
RAdd(a, b) == Norm(a.num * b.den + b.num * a.den, a.den * b.den)
RSub(a, b) == Norm(a.num * b.den - b.num * a.den, a.den * b.den)
RMul(a, b) == Norm(a.num * b.num, a.den * b.den)
\* true division "a / b" of two numbers, b # 0
RDiv(a, b) == Norm(a.num * b.den, a.den * b.num)
RLt(a, b)  == a.num * b.den < b.num * a.den

-----------------------------------------------------------------------------
(* Python floats (IEEE 754 binary64, round to nearest, ties to even) for   *)
(* the magnitudes the consolidated tallies take: zero, or a multiple of    *)
(* 2^-55 below 32.  A value is a sign and the magnitude in units of 2^-55, *)
(* held in two limbs: magnitude = hi * 2^30 + lo.                          *)

\* bits of a binary64 significand
SignificandBits == 53

\* the unit of the magnitude is 2^-FractionBits
FractionBits == 55

\* bits of the low limb
LimbBits == 30

Limb == 2 ^ LimbBits

float_zero == [neg |-> FALSE, hi |-> 0, lo |-> 0]

\* number of bits of a limb value
BitLen(n) == IF n = 0 THEN 0 ELSE CHOOSE b \in 1 .. LimbBits : 2 ^ (b - 1) <= n /\ n < 2 ^ b

MagAdd(a, b) ==
    LET lo == a.lo + b.lo
    IN  [hi |-> a.hi + b.hi + (lo \div Limb), lo |-> lo % Limb]

MagLess(a, b) == a.hi < b.hi \/ (a.hi = b.hi /\ a.lo < b.lo)

\* a - b for a >= b
MagSub(a, b) ==
    IF a.lo >= b.lo THEN [hi |-> a.hi - b.hi, lo |-> a.lo - b.lo]
    ELSE [hi |-> a.hi - b.hi - 1, lo |-> a.lo + Limb - b.lo]

\* the magnitude m, followed by a fraction of a unit described by tail
\* ("zero", "below", "half", "above" half a unit), rounded to a binary64
\* significand: the bits below the 53 leading ones are dropped, to nearest,
\* ties to even
round_to_nearest_even(m, tail) ==
    LET k == IF m.hi < 2 ^ (SignificandBits - LimbBits) THEN 0
             ELSE BitLen(m.hi) - (SignificandBits - LimbBits)
        dropped == m.lo % (2 ^ k)
        rest == IF k = 0 THEN tail
                ELSE IF 2 * dropped > 2 ^ k THEN "above"
                ELSE IF 2 * dropped = 2 ^ k
                        THEN (IF tail = "zero" THEN "half" ELSE "above")
                ELSE IF dropped = 0 /\ tail = "zero" THEN "zero"
                ELSE "below"
        odd == (m.lo \div (2 ^ k)) % 2 = 1
        kept == [hi |-> m.hi, lo |-> m.lo - dropped]
    IN  IF rest = "above" \/ (rest = "half" /\ odd)
            THEN MagAdd(kept, [hi |-> 0, lo |-> 2 ^ k])
            ELSE kept

\* c / n of two ints, n in 1 .. 5 and c = 0 or |c| / n in [1/8, 32): the
\* quotient of |c| * 2^55 by n, limb by limb, and its remainder
float_div(c, n) ==
    LET a == IF c < 0 THEN -c ELSE c
        hi0 == a * 2 ^ (FractionBits - LimbBits)
        r0 == hi0 % n
        q1 == (r0 * 2 ^ 15) \div n
        r1 == (r0 * 2 ^ 15) % n
        q2 == (r1 * 2 ^ 15) \div n
        r2 == (r1 * 2 ^ 15) % n
        tail == IF r2 = 0 THEN "zero"
                ELSE IF 2 * r2 < n THEN "below"
                ELSE IF 2 * r2 = n THEN "half" ELSE "above"
        m == round_to_nearest_even([hi |-> hi0 \div n, lo |-> q1 * 2 ^ 15 + q2], tail)
    IN  IF c = 0 THEN float_zero ELSE [neg |-> c < 0, hi |-> m.hi, lo |-> m.lo]

\* a + b of two floats
float_add(a, b) ==
    LET ma == [hi |-> a.hi, lo |-> a.lo]
        mb == [hi |-> b.hi, lo |-> b.lo]
        m == IF a.neg = b.neg THEN round_to_nearest_even(MagAdd(ma, mb), "zero")
             ELSE IF MagLess(ma, mb) THEN round_to_nearest_even(MagSub(mb, ma), "zero")
             ELSE round_to_nearest_even(MagSub(ma, mb), "zero")
        neg == IF a.neg = b.neg THEN a.neg
               ELSE IF MagLess(ma, mb) THEN b.neg ELSE a.neg
    IN  IF m.hi = 0 /\ m.lo = 0 THEN float_zero
        ELSE [neg |-> neg, hi |-> m.hi, lo |-> m.lo]

-----------------------------------------------------------------------------
(* Raw label strings.  NA is pandas' missing value (NaN) in a label column. *)

NA == "<NA>"

\* the keys of get_vehicle_category_mapping(), with their categories
category_mapping ==
    [k \in {"Sedan", "SEDAN", "4 dr sedan", "Station Wagon/Sport Utility Vehicle",
            "SPORT UTILITY / STATION WAGON", "PASSENGER VEHICLE", "Pick-up Truck",
            "PICK-UP TRUCK", "PK", "Convertible"} |-> "Passenger Vehicles"]
    @@ [k \in {"Taxi", "TAXI", "LIVERY VEHICLE"} |-> "Taxi/Livery"]
    @@ [k \in {"Bus", "BUS", "Box Truck", "BOX TRUCK", "Dump", "DUMP",
               "Tractor Truck Diesel", "TRACTOR TRUCK DIESEL", "Garbage or Refuse",
               "GARBAGE OR REFUSE", "LARGE COM VEH(6 OR MORE TIRES)",
               "SMALL COM VEH(4 TIRES)", "Ambulance", "AMBULANCE", "Fire Truck",
               "FIRE TRUCK", "Flat Bed"} |-> "Large/Commercial Vehicles"]
    @@ [k \in {"Motorcycle", "MOTORCYCLE", "Motorbike", "Moped", "MOPED"}
            |-> "Motorcycles"]
    @@ [k \in {"Bike", "BIKE", "E-Bike", "E-BIKE", "E-Scooter", "E-SCOOTER"}
            |-> "Bicycles/Scooters"]
    @@ [k \in {"Van", "VAN"} |-> "Van"]
    @@ [k \in {"UNKNOWN", "OTHER"} |-> "Other/Unknown"]

\* the fine-grained table of extract_bike_data_by_year
bike_mapping ==
    [k \in {"Bike", "BIKE"} |-> "Traditional Bicycle"]
    @@ [k \in {"E-Bike", "E-BIKE"} |-> "E-Bike"]
    @@ [k \in {"E-Scooter", "E-SCOOTER"} |-> "E-Scooter"]

\* the list the bike loader matches label columns against (exact match)
bike_types == {"Bike", "BIKE", "E-Bike", "E-BIKE", "E-Scooter", "E-SCOOTER"}

\* str.upper() on the labels of the model's universe that are not already
\* upper case
UpperTable ==
    [ Sedan |-> "SEDAN" ]
    @@ ("4 dr sedan" :> "4 DR SEDAN")
    @@ ("Station Wagon/Sport Utility Vehicle" :> "STATION WAGON/SPORT UTILITY VEHICLE")
    @@ ("Pick-up Truck" :> "PICK-UP TRUCK")
    @@ ("Convertible" :> "CONVERTIBLE")
    @@ ("Taxi" :> "TAXI")
    @@ ("Bus" :> "BUS")
    @@ ("Box Truck" :> "BOX TRUCK")
    @@ ("Dump" :> "DUMP")
    @@ ("Tractor Truck Diesel" :> "TRACTOR TRUCK DIESEL")
    @@ ("Garbage or Refuse" :> "GARBAGE OR REFUSE")
    @@ ("Ambulance" :> "AMBULANCE")
    @@ ("Fire Truck" :> "FIRE TRUCK")
    @@ ("Flat Bed" :> "FLAT BED")
    @@ ("Motorcycle" :> "MOTORCYCLE")
    @@ ("Motorbike" :> "MOTORBIKE")
    @@ ("Moped" :> "MOPED")
    @@ ("Bike" :> "BIKE")
    @@ ("E-Bike" :> "E-BIKE")
    @@ ("E-Scooter" :> "E-SCOOTER")
    @@ ("Van" :> "VAN")
    @@ ("Car" :> "CAR")
    @@ ("sedan" :> "SEDAN")
    @@ ("bike" :> "BIKE")
    @@ ("unknown" :> "UNKNOWN")
    @@ ("Unknown" :> "UNKNOWN")
    @@ ("nan" :> "NAN")
    @@ ("NaN" :> "NAN")
    @@ ("Other" :> "OTHER")

\* str.strip() on the labels of the model's universe that carry surrounding
\* whitespace
StripTable ==
    (" Sedan " :> "Sedan")
    @@ ("Bike " :> "Bike")
    @@ (" E-BIKE" :> "E-BIKE")
    @@ (" Car " :> "Car")
    @@ (" unknown " :> "unknown")
    @@ (" nan" :> "nan")
    @@ ("   " :> "")

strip(s) == IF s \in DOMAIN StripTable THEN StripTable[s] ELSE s
upper(s) == IF s \in DOMAIN UpperTable THEN UpperTable[s] ELSE s

\* every raw label value of the model
Labels ==
    {NA, "", "UNKNOWN", "NAN", "CAR", "4 DR SEDAN", "CONVERTIBLE", "FLAT BED",
     "MOTORBIKE", "STATION WAGON/SPORT UTILITY VEHICLE"}
    \cup DOMAIN category_mapping \cup DOMAIN UpperTable \cup DOMAIN StripTable


-----------------------------------------------------------------------------
(* Cells of the data frame: a number or date, pandas' missing value, the   *)
(* float infinity read_csv parses from 'inf', or text.                     *)

Cell(v) == [isna |-> FALSE, v |-> v, kind |-> "number"]
NaN == [isna |-> TRUE, v |-> 0, kind |-> "nan"]
\* read_csv parses 'inf' as the float infinity: not missing, above every number
Inf == [isna |-> FALSE, v |-> 0, kind |-> "inf"]
\* a value of a column read_csv could not parse as numbers and left as text
Text == [isna |-> FALSE, v |-> 0, kind |-> "text"]

\* the five 'VEHICLE TYPE CODE n' columns
vehicle_cols == 1 .. 5

\* df[col] > 0 on a numeric column (False for NaN, True for infinity)
Positive(c) == c.kind = "inf" \/ (c.kind = "number" /\ c.v > 0)

\* int(pd.to_numeric(x, errors='coerce') or 0): NaN is truthy, so "or 0" only
\* replaces 0 by 0, and int(NaN) raises ValueError
\* (raised: the except clause catches it); int(inf) raises OverflowError,
\* which is neither a ValueError nor a TypeError (overflow: it is not caught)
py_int(c) ==
    CASE c.kind = "number" -> [raised |-> FALSE, overflow |-> FALSE, v |-> c.v]
      [] c.kind = "inf"    -> [raised |-> FALSE, overflow |-> TRUE, v |-> 0]
      [] OTHER             -> [raised |-> TRUE, overflow |-> FALSE, v |-> 0]

\* Dates are day offsets from 2025-01-01.  First day of each calendar year:
YearStart ==
    (2019 :> -2192) @@ (2020 :> -1827) @@ (2021 :> -1461) @@ (2022 :> -1096)
    @@ (2023 :> -731) @@ (2024 :> -366) @@ (2025 :> 0) @@ (2026 :> 365)
    @@ (2027 :> 730)

\* faulty variant: an unparseable date gets the sentinel year 0
dt_year_sentinel(d) ==
    IF d.isna THEN Cell(0)
    ELSE Cell(CHOOSE y \in 2019 .. 2026 : YearStart[y] <= d.v /\ d.v < YearStart[y + 1])

\* df['CRASH DATE'].dt.year (NaN for NaT)
dt_year(d) ==
    IF d.isna THEN NaN
    ELSE Cell(CHOOSE y \in 2019 .. 2026 : YearStart[y] <= d.v /\ d.v < YearStart[y + 1])

-----------------------------------------------------------------------------
(* Per-slot label handling and the classifiers.                            *)

\* faulty variant: the missing-sentinels 'unknown' / 'nan' are not filtered out
IsValidVehicle_keeps_sentinels(vehicle) == vehicle # NA /\ strip(vehicle) # ""

\* faulty variant: the sentinels are compared without upper(), so only the
\* all-caps spellings are filtered out
IsValidVehicle_case_sensitive(vehicle) ==
    /\ vehicle # NA
    /\ strip(vehicle) # ""
    /\ strip(vehicle) \notin {"", "UNKNOWN", "NAN"}

\* pedestrian_analysis_consolidated.py:139 / yearly_trends_analysis.py:162
IsValidVehicle(vehicle) ==
    /\ vehicle # NA
    /\ strip(vehicle) # ""
    /\ upper(strip(vehicle)) \notin {"", "UNKNOWN", "NAN"}

\* faulty variant: a label that is not a key is looked up again in upper case
mapping_get_ignores_case(vehicle_type) ==
    IF vehicle_type \in DOMAIN category_mapping
        THEN category_mapping[vehicle_type]
        ELSE IF upper(vehicle_type) \in DOMAIN category_mapping
                 THEN category_mapping[upper(vehicle_type)]
                 ELSE "Other/Unknown"

\* faulty variant: the table files 'Moped' with the bicycles, 'MOPED' stays
mapping_get_moped_misfiled(vehicle_type) ==
    IF vehicle_type = "Moped" THEN "Bicycles/Scooters"
    ELSE IF vehicle_type \in DOMAIN category_mapping
             THEN category_mapping[vehicle_type]
             ELSE "Other/Unknown"

\* faulty variant: a label that is not a key is its own category
mapping_get_keeps_label(vehicle_type) ==
    IF vehicle_type \in DOMAIN category_mapping
        THEN category_mapping[vehicle_type]
        ELSE vehicle_type

\* category_mapping.get(vehicle_type, 'Other/Unknown')
mapping_get(vehicle_type) ==
    IF vehicle_type \in DOMAIN category_mapping
        THEN category_mapping[vehicle_type]
        ELSE "Other/Unknown"

\* bike_vs_ebike_analysis.py:123
IsBikeLabel(vehicle) == vehicle # NA /\ strip(vehicle) \in DOMAIN bike_mapping

\* the categories one slot appends to vehicles_in_collision (none or one)
coarse_slot(vehicle) ==
    IF IsValidVehicle(vehicle) THEN << mapping_get(strip(vehicle)) >> ELSE << >>

\* faulty variant: a valid label outside the bike table falls back to 'Other/Unknown'
bike_slot_with_fallback(vehicle) ==
    IF IsBikeLabel(vehicle) THEN << bike_mapping[strip(vehicle)] >>
    ELSE IF IsValidVehicle(vehicle) THEN << "Other/Unknown" >> ELSE << >>

\* the bike types one slot appends to bikes_in_collision (none or one)
bike_slot(vehicle) ==
    IF IsBikeLabel(vehicle) THEN << bike_mapping[strip(vehicle)] >> ELSE << >>

RECURSIVE vehicles_in_collision(_, _)
vehicles_in_collision(labels, col) ==
    IF col > Len(labels) THEN << >>
    ELSE coarse_slot(labels[col]) \o vehicles_in_collision(labels, col + 1)

RECURSIVE bikes_in_collision(_, _)
bikes_in_collision(labels, col) ==
    IF col > Len(labels) THEN << >>
    ELSE bike_slot(labels[col]) \o bikes_in_collision(labels, col + 1)

InSeq(x, s) == \E k \in 1 .. Len(s) : s[k] = x

\* list(dict.fromkeys(seq)): duplicates removed, first-seen order kept
RECURSIVE dict_fromkeys(_, _)
dict_fromkeys(seq, acc) ==
    IF seq = << >> THEN acc
    ELSE dict_fromkeys(Tail(seq),
                       IF InSeq(Head(seq), acc) THEN acc ELSE Append(acc, Head(seq)))

\* faulty variant: duplicates are kept (the split is over slots, not categories)
unique_keeps_duplicates(seq) == seq

unique(seq) == dict_fromkeys(seq, << >>)

-----------------------------------------------------------------------------
(* The aggregate tables (defaultdicts): a key exists once it was written.  *)

EmptyDict == [k \in {} |-> 0]

\* defaultdict(lambda: {'injured': 0, 'killed': 0})
NewTally == [injured |-> Zero, killed |-> Zero]

\* faulty variant: the amounts are assigned (=), not added (+=)
AddFlat_assigns(cc, category, di, dk) ==
    (category :> [injured |-> di, killed |-> dk]) @@ cc

\* category_casualties[category]['injured'] += di; ...['killed'] += dk
AddFlat(cc, category, di, dk) ==
    LET old == IF category \in DOMAIN cc THEN cc[category] ELSE NewTally
    IN  (category :> [injured |-> RAdd(old.injured, di),
                      killed  |-> RAdd(old.killed, dk)]) @@ cc

\* faulty variant: the amounts go to the bucket of the year before
AddNested_year_before(yd, category, year, di, dk) ==
    LET years == IF category \in DOMAIN yd THEN yd[category] ELSE EmptyDict
        old   == IF year - 1 \in DOMAIN years THEN years[year - 1] ELSE NewTally
    IN  (category :> ((year - 1 :> [injured |-> RAdd(old.injured, di),
                                    killed  |-> RAdd(old.killed, dk)]) @@ years)) @@ yd

\* yearly_data[category][year]['injured'] += di; ...['killed'] += dk
AddNested(yd, category, year, di, dk) ==
    LET years == IF category \in DOMAIN yd THEN yd[category] ELSE EmptyDict
        old   == IF year \in DOMAIN years THEN years[year] ELSE NewTally
    IN  (category :> ((year :> [injured |-> RAdd(old.injured, di),
                                killed  |-> RAdd(old.killed, dk)]) @@ years)) @@ yd

\* for category in unique_vehicles: category_casualties[category] += ...
RECURSIVE AddAllFlat(_, _, _, _)
AddAllFlat(cc, cats, di, dk) ==
    IF cats = << >> THEN cc
    ELSE AddAllFlat(AddFlat(cc, Head(cats), di, dk), Tail(cats), di, dk)

\* for category in unique_vehicles: yearly_data[category][year] += ...
RECURSIVE AddAllNested(_, _, _, _, _)
AddAllNested(yd, cats, year, di, dk) ==
    IF cats = << >> THEN yd
    ELSE AddAllNested(AddNested(yd, Head(cats), year, di, dk), Tail(cats), year, di, dk)

\* faulty variant: every category gets the whole count (duplication, no split)
casualty_per_category_whole(count, unique_vehicles) == count

\* casualty_per_category = count / len(unique_vehicles)
casualty_per_category(count, unique_vehicles) == RDiv(count, R(Len(unique_vehicles)))

\* the try block of the loop body lets an exception out: int() of the injured
\* count overflows, or the injured count converts and int() of the killed
\* count overflows (a ValueError of the injured count leaves the try block
\* before the killed count is converted)
counts_overflow(row) ==
    LET ii == py_int(row.injured)
        kk == py_int(row.killed)
    IN  ii.overflow \/ (~ii.raised /\ kk.overflow)

\* one iteration of the loop of extract_and_categorize_vehicles
consolidated_fold(cc, row) ==
    LET ii == py_int(row.injured)
        kk == py_int(row.killed)
        raised == ii.raised \/ kk.raised
        \* except (ValueError, TypeError): injured = killed = 0
        injured == IF raised THEN R(0) ELSE R(ii.v)
        killed  == IF raised THEN R(0) ELSE R(kk.v)
        in_collision == vehicles_in_collision(row.labels, 1)
        unique_vehicles == unique(in_collision)
    IN  IF in_collision = << >> THEN cc
        ELSE AddAllFlat(cc, unique_vehicles,
                        casualty_per_category(injured, unique_vehicles),
                        casualty_per_category(killed, unique_vehicles))

\* defaultdict(lambda: {'injured': 0, 'killed': 0}), the values as floats
NewTally64 == [injured |-> float_zero, killed |-> float_zero]

\* category_casualties[category]['injured'] += di; ...['killed'] += dk, in
\* binary64
AddFlat64(cc, category, di, dk) ==
    LET old == IF category \in DOMAIN cc THEN cc[category] ELSE NewTally64
    IN  (category :> [injured |-> float_add(old.injured, di),
                      killed  |-> float_add(old.killed, dk)]) @@ cc

RECURSIVE AddAllFlat64(_, _, _, _)
AddAllFlat64(cc, cats, di, dk) ==
    IF cats = << >> THEN cc
    ELSE AddAllFlat64(AddFlat64(cc, Head(cats), di, dk), Tail(cats), di, dk)

\* one iteration of the loop of extract_and_categorize_vehicles with the
\* values Python computes: injured / len(unique_vehicles) is a float division,
\* += a float addition
consolidated_fold_64(cc, row) ==
    LET ii == py_int(row.injured)
        kk == py_int(row.killed)
        raised == ii.raised \/ kk.raised
        injured == IF raised THEN 0 ELSE ii.v
        killed  == IF raised THEN 0 ELSE kk.v
        in_collision == vehicles_in_collision(row.labels, 1)
        unique_vehicles == unique(in_collision)
    IN  IF in_collision = << >> THEN cc
        ELSE AddAllFlat64(cc, unique_vehicles,
                          float_div(injured, Len(unique_vehicles)),
                          float_div(killed, Len(unique_vehicles)))

\* faulty variant: the projected count is cut back to a whole number
apply_projection_truncates(count, year, factor) ==
    IF year = 2025
        THEN LET p == RMul(count, factor) IN R(p.num \div p.den)
        ELSE count

\* faulty variant: every year from 2025 on is projected
apply_projection_from_2025(count, year, factor) ==
    IF year >= 2025 THEN RMul(count, factor) ELSE count

\* faulty variant: a count of 2025 is multiplied by the factor twice
apply_projection_twice(count, year, factor) ==
    IF year = 2025 THEN RMul(RMul(count, factor), factor) ELSE count

\* if year == 2025: count *= projection_factor
apply_projection(count, year, factor) ==
    IF year = 2025 THEN RMul(count, factor) ELSE count

\* one iteration of the loop of extract_yearly_data_by_category
yearly_fold(yd, row, factor) ==
    LET ii == py_int(row.injured)
        kk == py_int(row.killed)
        yy == py_int(row.YEAR)
        year == yy.v
        injured == apply_projection(R(ii.v), year, factor)
        killed  == apply_projection(R(kk.v), year, factor)
        in_collision == vehicles_in_collision(row.labels, 1)
        unique_vehicles == unique(in_collision)
    IN  IF ii.raised \/ kk.raised \/ yy.raised THEN yd     \* except: continue
        ELSE IF in_collision = << >> THEN yd
        ELSE AddAllNested(yd, unique_vehicles, year,
                          casualty_per_category(injured, unique_vehicles),
                          casualty_per_category(killed, unique_vehicles))

\* faulty variant: records of every year are added
bike_fold_every_year(yd, row, factor) ==
    LET ii == py_int(row.injured)
        kk == py_int(row.killed)
        yy == py_int(row.YEAR)
        year == yy.v
        injured == apply_projection(R(ii.v), year, factor)
        killed  == apply_projection(R(kk.v), year, factor)
        in_collision == bikes_in_collision(row.labels, 1)
        unique_bikes == unique(in_collision)
    IN  IF ii.raised \/ kk.raised \/ yy.raised THEN yd
        ELSE IF in_collision = << >> THEN yd
        ELSE AddAllNested(yd, unique_bikes, year,
                          casualty_per_category(injured, unique_bikes),
                          casualty_per_category(killed, unique_bikes))

\* one iteration of the loop of extract_bike_data_by_year
bike_fold(yd, row, factor) ==
    LET ii == py_int(row.injured)
        kk == py_int(row.killed)
        yy == py_int(row.YEAR)
        year == yy.v
        injured == apply_projection(R(ii.v), year, factor)
        killed  == apply_projection(R(kk.v), year, factor)
        in_collision == bikes_in_collision(row.labels, 1)
        unique_bikes == unique(in_collision)
    IN  IF ii.raised \/ kk.raised \/ yy.raised THEN yd     \* except: continue
        ELSE IF year < 2020 THEN yd
        ELSE IF in_collision = << >> THEN yd
        ELSE AddAllNested(yd, unique_bikes, year,
                          casualty_per_category(injured, unique_bikes),
                          casualty_per_category(killed, unique_bikes))

-----------------------------------------------------------------------------
(* Loaders.                                                                *)

\* (df['NUMBER OF PEDESTRIANS INJURED'] > 0) | (df['... KILLED'] > 0)
HasCasualty(row) == Positive(row.injured) \/ Positive(row.killed)

\* bike_mask: some label column isin(bike_types) (exact match, no strip)
bike_mask(row) == \E col \in vehicle_cols : row.labels[col] \in bike_types

\* df['YEAR'] = df['CRASH DATE'].dt.year
WithYear(row) == [date |-> row.date, injured |-> row.injured, killed |-> row.killed,
                  labels |-> row.labels, YEAR |-> dt_year(row.date)]

\* the frame with its YEAR column
with_year_column(rows) == [k \in 1 .. Len(rows) |-> WithYear(rows[k])]

\* df[col] > 0 raises TypeError when a count column holds text
filter_raises(rows) ==
    \E k \in 1 .. Len(rows) : rows[k].injured.kind = "text" \/ rows[k].killed.kind = "text"

\* pedestrian_analysis_consolidated.load_and_preprocess_data
load_consolidated(rows) == SelectSeq(rows, HasCasualty)

\* yearly_trends_analysis.load_and_preprocess_data
load_yearly(rows) ==
    LET notna(row) == ~row.YEAR.isna
    IN  SelectSeq(SelectSeq(with_year_column(rows), notna), HasCasualty)

\* bike_vs_ebike_analysis.load_and_preprocess_data
load_bike(rows) == SelectSeq(load_yearly(rows), bike_mask)

\* df['CRASH DATE'].max()  (NaT for an empty frame)
RECURSIVE max_date(_)
max_date(rows) ==
    IF rows = << >> THEN NaN
    ELSE LET rest == max_date(Tail(rows))
             d == Head(rows).date
         IN  IF rest.isna \/ (~d.isna /\ d.v > rest.v) THEN d ELSE rest

\* (latest_date - pd.Timestamp("2025-01-01")).days + 1
days_since_2025(latest_date) ==
    IF latest_date.isna THEN NaN ELSE Cell(latest_date.v - YearStart[2025] + 1)

\* faulty variant: the nominal period is a leap year
factor_of_leap_year(days) == IF Positive(days) THEN RDiv(R(366), R(days.v)) ELSE R(1)

\* faulty variant: no guard on days_in_2025
factor_of_unguarded(days) == IF days.isna THEN R(1) ELSE RDiv(R(365), R(days.v))

\* 365 / days_in_2025 if days_in_2025 > 0 else 1.0
factor_of(days) == IF Positive(days) THEN RDiv(R(365), R(days.v)) ELSE R(1)

-----------------------------------------------------------------------------
(* Inputs: the rows of the CSV file.                                       *)

MaxRows == 3

Slots(seq) == [col \in vehicle_cols |-> IF col <= Len(seq) THEN seq[col] ELSE NA]

Row(date, injured, killed, labels) ==
    [date |-> date, injured |-> injured, killed |-> killed, labels |-> Slots(labels)]

\* rows offered to the consolidated script (it reads no date column)
ConsolidatedRows ==
    { Row(NaN, Cell(3), Cell(1), << "Sedan", "SEDAN", "Taxi" >>),
      Row(NaN, Cell(1), Cell(0), << "Taxi", "Car", "Bike" >>),
      Row(NaN, Cell(4), Cell(1), << "Sedan", "Taxi", "Bus", "Moped", "Bike" >>),
      Row(NaN, Cell(2), Cell(1), << NA, "", "   ", "unknown", "UNKNOWN" >>),
      Row(NaN, Cell(5), Cell(0), << " nan", "NaN" >>),
      Row(NaN, Cell(7), Cell(2), << " Sedan ", NA, "Van" >>),
      Row(NaN, NaN, Cell(1), << "Sedan" >>),
      Row(NaN, Cell(2), NaN, << "Taxi", "Van" >>),
      Row(NaN, Cell(-1), Cell(1), << "Taxi" >>),
      Row(NaN, Cell(0), Cell(0), << "Sedan" >>),
      Row(NaN, Cell(1), Cell(1), << "sedan", "OTHER" >>),
      Row(NaN, Inf, Cell(1), << "Sedan" >>),
      Row(NaN, Text, Cell(1), << "Sedan" >>) }

\* rows offered to the yearly script; dates are day offsets from 2025-01-01
YearlyRows ==
    { Row(Cell(-100), Cell(3), Cell(1), << "Sedan", "SEDAN", "Taxi" >>),
      Row(Cell(145), Cell(100), Cell(2), << "Sedan" >>),
      Row(Cell(72), Cell(1), Cell(0), << "Taxi", "Car", "Bike" >>),
      Row(Cell(-1), Cell(2), Cell(1), << NA, "", "   ", "unknown", "UNKNOWN" >>),
      Row(Cell(145), Cell(5), Cell(0), << " nan", "NaN" >>),
      Row(Cell(400), Cell(1), Cell(1), << "Van", " Sedan " >>),
      Row(NaN, Cell(1), Cell(0), << "Sedan" >>),
      Row(Cell(-100), NaN, Cell(1), << "Sedan" >>),
      Row(Cell(-100), Cell(-1), Cell(1), << "Taxi" >>),
      Row(Cell(-100), Cell(0), Cell(0), << "Sedan" >>),
      Row(Cell(-2000), Cell(1), Cell(0), << "Bike", "UNKNOWN", "Moped" >>),
      Row(Cell(-500), Cell(4), Cell(0), << "Sedan", "Taxi", "Bus", "Moped", "Bike" >>),
      Row(Cell(-100), Cell(1), Inf, << "Sedan" >>) }

\* rows offered to the bike script
BikeRows ==
    { Row(Cell(-100), Cell(10), Cell(0), << "Bike" >>),
      Row(Cell(-100), Cell(6), Cell(0), << "Bike", "Car" >>),
      Row(Cell(-100), Cell(9), Cell(0), << "BIKE", "E-BIKE" >>),
      Row(Cell(145), Cell(100), Cell(2), << "E-Bike", "Sedan" >>),
      Row(Cell(72), Cell(3), Cell(1), << "Bike", "BIKE", "E-Scooter" >>),
      Row(Cell(-2000), Cell(1), Cell(0), << "Bike" >>),
      Row(Cell(400), Cell(1), Cell(1), << "E-SCOOTER" >>),
      Row(Cell(-100), Cell(2), Cell(0), << "Sedan", "Taxi" >>),
      Row(Cell(-1), Cell(1), Cell(1), << "Bike ", "E-Bike", "UNKNOWN" >>),
      Row(Cell(-100), NaN, Cell(1), << "Bike" >>),
      Row(NaN, Cell(1), Cell(0), << "Bike" >>),
      Row(Cell(-100), Cell(2), Cell(0), << "Bike " >>) }

Scripts == {"consolidated", "yearly", "bike"}

RowsOf(s) == CASE s = "consolidated" -> ConsolidatedRows
               [] s = "yearly" -> YearlyRows
               [] s = "bike" -> BikeRows

SeqsUpTo(S, n) == UNION { [1 .. k -> S] : k \in 0 .. n }

-----------------------------------------------------------------------------
(* Rendering and reporting: what the chart and report functions do to the   *)
(* table they are given.  matplotlib's own failures are not modelled.       *)

\* every year that is a key under some category
all_years(yd) == UNION { DOMAIN yd[c] : c \in DOMAIN yd }

\* faulty variant: the lookup of an absent year stores the default
year_data_get_inserts(yd, category, year) ==
    [value |-> IF year \in DOMAIN yd[category] THEN yd[category][year] ELSE NewTally,
     table |-> IF year \in DOMAIN yd[category] THEN yd
               ELSE AddNested(yd, category, year, Zero, Zero)]

\* year_data.get(year, {...}): the stored tally or the default given; the
\* dictionary is left as it is
year_data_get(yd, category, year) ==
    [value |-> IF year \in DOMAIN yd[category] THEN yd[category][year] ELSE NewTally,
     table |-> yd]

\* year_data[year] on the inner defaultdict: an absent year is inserted with
\* the factory's tally
year_data_getitem(yd, category, year) ==
    [value |-> IF year \in DOMAIN yd[category] THEN yd[category][year] ELSE NewTally,
     table |-> IF year \in DOMAIN yd[category] THEN yd
               ELSE AddNested(yd, category, year, Zero, Zero)]

\* the table after year_data.get for each (category, year) of keys
RECURSIVE get_each(_, _)
get_each(yd, keys) ==
    IF keys = {} THEN yd
    ELSE LET k == CHOOSE k \in keys : TRUE
         IN  get_each(year_data_get(yd, k[1], k[2]).table, keys \ {k})

\* the table after year_data[year] for each (category, year) of keys
RECURSIVE getitem_each(_, _)
getitem_each(yd, keys) ==
    IF keys = {} THEN yd
    ELSE LET k == CHOOSE k \in keys : TRUE
         IN  getitem_each(year_data_getitem(yd, k[1], k[2]).table, keys \ {k})

\* create_yearly_trends_charts: for every category, every year of all_years
\* is looked up with .get; the sums by year go to a dictionary of its own
create_yearly_trends_charts(yd) == get_each(yd, (DOMAIN yd) \X all_years(yd))

\* generate_yearly_report: the same lookups for the five largest categories
\* (here: for every category, which includes them)
generate_yearly_report(yd) == get_each(yd, (DOMAIN yd) \X all_years(yd))

\* create_bike_comparison_charts
create_bike_comparison_charts(yd) == get_each(yd, (DOMAIN yd) \X all_years(yd))

\* min(...) and max(...) of a non-empty set of years
Min(S) == CHOOSE x \in S : \A y \in S : x <= y
Max(S) == CHOOSE x \in S : \A y \in S : x >= y

\* years_with_data: the years of a bike type whose injured + killed > 0
years_with_data(yd, bike_type) ==
    { y \in DOMAIN yd[bike_type] :
        RLt(Zero, RAdd(yd[bike_type][y].injured, yd[bike_type][y].killed)) }

\* the (bike type, year) pairs read with year_data[first_year] and
\* year_data[last_year] for the growth rate
growth_lookups(yd) ==
    UNION { IF Cardinality(years_with_data(yd, c)) >= 2
                THEN { << c, Min(years_with_data(yd, c)) >>,
                       << c, Max(years_with_data(yd, c)) >> }
                ELSE {} : c \in DOMAIN yd }

\* generate_bike_analysis_data
generate_bike_analysis_data(yd) ==
    get_each(getitem_each(yd, growth_lookups(yd)), (DOMAIN yd) \X all_years(yd))

\* injured + killed of one tally
casualties_total(t) == RAdd(t.injured, t.killed)

\* grand_total: the sum of injured + killed over the categories
RECURSIVE grand_total(_, _)
grand_total(cc, cats) ==
    IF cats = {} THEN Zero
    ELSE LET c == CHOOSE c \in cats : TRUE
         IN  RAdd(casualties_total(cc[c]), grand_total(cc, cats \ {c}))

\* the chart functions raise: the consolidated script unpacks zip(*sorted_data)
\* of the categories with total > 0, which fails when there is none; the
\* yearly script fits a trend line (np.polyfit), which fails on no years
charts_raise(s, cc, yd) ==
    CASE s = "consolidated" -> \A c \in DOMAIN cc : ~RLt(Zero, casualties_total(cc[c]))
      [] s = "yearly" -> all_years(yd) = {}
      [] OTHER -> FALSE

\* the report function raises: total_killed / grand_total with grand_total 0,
\* min(all_years) of no years
report_raises(s, cc, yd) ==
    CASE s = "consolidated" -> grand_total(cc, DOMAIN cc) = Zero
      [] OTHER -> all_years(yd) = {}

-----------------------------------------------------------------------------
(* The ridership scripts (analyze_bicycle_counts.py, yearly_ridership.py):  *)
(* rows of a date and a count, summed by day or by year.                   *)

RidershipRows ==
    { [date |-> Cell(-100), counts |-> 5],
      [date |-> Cell(72), counts |-> 7],
      [date |-> Cell(72), counts |-> 2] }

RidershipScripts == {"analyze_bicycle_counts", "yearly_ridership"}

\* df.groupby(key)['counts'].sum(), key the day or the calendar year
RECURSIVE groupby_sum(_, _)
groupby_sum(rows, by_year) ==
    IF rows = << >> THEN EmptyDict
    ELSE LET rest == groupby_sum(Tail(rows), by_year)
             key == IF by_year THEN dt_year(Head(rows).date).v ELSE Head(rows).date.v
         IN  [k \in DOMAIN rest \cup {key} |->
                (IF k \in DOMAIN rest THEN rest[k] ELSE 0)
                + (IF k = key THEN Head(rows).counts ELSE 0)]

-----------------------------------------------------------------------------
(* The per-vehicle-type script (pedestrian_analysis.py): a table keyed by  *)
(* the raw label, then the raw names merged into cleaned names.            *)

\* vehicle_mapping of clean_vehicle_types
vehicle_mapping ==
    [k \in {"Station Wagon/Sport Utility Vehicle", "SPORT UTILITY / STATION WAGON"}
        |-> "SUV/Station Wagon"]
    @@ [k \in {"Sedan", "SEDAN"} |-> "Sedan"]
    @@ [k \in {"Pick-up Truck", "PICK-UP TRUCK"} |-> "Pickup Truck"]
    @@ [k \in {"Box Truck", "BOX TRUCK"} |-> "Box Truck"]
    @@ [k \in {"Taxi", "TAXI"} |-> "Taxi"]
    @@ [k \in {"Bus", "BUS"} |-> "Bus"]
    @@ [k \in {"Bike", "BIKE"} |-> "Bicycle"]
    @@ [k \in {"E-Bike", "E-BIKE"} |-> "E-Bike"]
    @@ [k \in {"E-Scooter", "E-SCOOTER"} |-> "E-Scooter"]
    @@ [k \in {"Motorcycle", "MOTORCYCLE"} |-> "Motorcycle"]
    @@ [k \in {"Tractor Truck Diesel", "TRACTOR TRUCK DIESEL"} |-> "Tractor Truck"]
    @@ [k \in {"Dump", "DUMP"} |-> "Dump Truck"]
    @@ [k \in {"Garbage or Refuse", "GARBAGE OR REFUSE"} |-> "Garbage Truck"]
    @@ [k \in {"Ambulance", "AMBULANCE"} |-> "Ambulance"]
    @@ [k \in {"Fire Truck", "FIRE TRUCK"} |-> "Fire Truck"]
    @@ [k \in {"Van", "VAN"} |-> "Van"]
    @@ [k \in {"Moped", "MOPED"} |-> "Moped"]

\* faulty variant: a name that is not a key is filed under 'Other'
vehicle_mapping_get_files_other(vehicle) ==
    IF vehicle \in DOMAIN vehicle_mapping THEN vehicle_mapping[vehicle] ELSE "Other"

\* vehicle_mapping.get(vehicle, vehicle)
vehicle_mapping_get(vehicle) ==
    IF vehicle \in DOMAIN vehicle_mapping THEN vehicle_mapping[vehicle] ELSE vehicle

\* one label column of extract_vehicle_types: the stripped raw name of a valid
\* slot is appended (the validity test is the one of IsValidVehicle)
raw_slot(vehicle) == IF IsValidVehicle(vehicle) THEN << strip(vehicle) >> ELSE << >>

\* vehicles_in_collision of extract_vehicle_types: one entry per valid slot
RECURSIVE raw_vehicles_in_collision(_, _)
raw_vehicles_in_collision(labels, col) ==
    IF col > Len(labels) THEN << >>
    ELSE raw_slot(labels[col]) \o raw_vehicles_in_collision(labels, col + 1)

\* one iteration of the loop of extract_vehicle_types
extract_vehicle_types_row(vc, row) ==
    LET ii == py_int(row.injured)
        kk == py_int(row.killed)
        raised == ii.raised \/ kk.raised
        \* except (ValueError, TypeError): injured = killed = 0
        injured == IF raised THEN R(0) ELSE R(ii.v)
        killed  == IF raised THEN R(0) ELSE R(kk.v)
        in_collision == raw_vehicles_in_collision(row.labels, 1)
    IN  IF in_collision = << >> THEN vc
        ELSE AddAllFlat(vc, in_collision,
                        casualty_per_category(injured, in_collision),
                        casualty_per_category(killed, in_collision))

\* the loop of clean_vehicle_types over vehicle_casualties.items()
RECURSIVE clean_items(_, _, _)
clean_items(vc, names, cleaned_casualties) ==
    IF names = {} THEN cleaned_casualties
    ELSE LET vehicle == CHOOSE v \in names : TRUE
             clean_name == vehicle_mapping_get(vehicle)
         IN  clean_items(vc, names \ {vehicle},
                         AddFlat(cleaned_casualties, clean_name,
                                 vc[vehicle].injured, vc[vehicle].killed))

clean_vehicle_types(vc) == clean_items(vc, DOMAIN vc, EmptyDict)

\* df_plot of create_visualizations: the vehicle types with total >= 10
df_plot(vehicle_data) ==
    { v \in DOMAIN vehicle_data : ~RLt(casualties_total(vehicle_data[v]), R(10)) }

\* create_visualizations raises: with no vehicle type of total >= 10 the frame
\* has no column 'Total' to sort by (KeyError)
create_visualizations_raises(vehicle_data) == df_plot(vehicle_data) = {}

\* generate_report raises: the overall fatality rate divides by a zero total,
\* df_plot.iloc[0] of no rows, .iloc[0] of no vehicle type with total >= 100
generate_report_raises(vehicle_data) ==
    \/ grand_total(vehicle_data, DOMAIN vehicle_data) = Zero
    \/ df_plot(vehicle_data) = {}
    \/ \A v \in df_plot(vehicle_data) :
            RLt(casualties_total(vehicle_data[v]), R(100))

\* rows offered to the per-vehicle-type script (it reads no date column)
VehicleRows ==
    { Row(NaN, Cell(3), Cell(1), << "Sedan", "Sedan", "Taxi" >>),
      Row(NaN, Cell(2), Cell(1), << "Sedan", "SEDAN", " Sedan ", "Pedicab" >>),
      Row(NaN, Cell(1), Cell(0), << "Taxi", "Car", "Bike", "BIKE", "Bike" >>),
      Row(NaN, Cell(12), Cell(0), << "Dump", "DUMP" >>),
      Row(NaN, Cell(100), Cell(2), << "Sedan" >>),
      Row(NaN, Cell(2), Cell(1), << NA, "", "   ", "unknown", "UNKNOWN" >>),
      Row(NaN, Cell(7), Cell(2), << " Car ", NA, "Car" >>),
      Row(NaN, NaN, Cell(1), << "Sedan" >>),
      Row(NaN, Cell(-1), Cell(1), << "Taxi" >>),
      Row(NaN, Cell(0), Cell(0), << "Sedan" >>),
      Row(NaN, Inf, Cell(1), << "Sedan" >>),
      Row(NaN, Text, Cell(1), << "Sedan" >>) }

-----------------------------------------------------------------------------
(* Bicycle casualty rates per ridership (casualty_rate_analysis.py).       *)

RIDERSHIP_DATA ==
    (2012 :> 1611856) @@ (2013 :> 323533) @@ (2014 :> 9261909)
    @@ (2015 :> 13797937) @@ (2016 :> 16005658) @@ (2017 :> 14481794)
    @@ (2018 :> 12544736) @@ (2019 :> 12346460) @@ (2020 :> 13577322)
    @@ (2021 :> 13690962) @@ (2022 :> 14621312) @@ (2023 :> 17466861)
    @@ (2024 :> 21064730) @@ (2025 :> 20783683)

\* {'injured': i, 'killed': k}
Casualties(i, k) == [injured |-> i, killed |-> k]

get_bike_casualty_data_by_year ==
    ("Traditional Bicycle" :>
        ((2012 :> Casualties(0, 0)) @@ (2013 :> Casualties(2, 0))
         @@ (2014 :> Casualties(0, 0)) @@ (2015 :> Casualties(1, 0))
         @@ (2016 :> Casualties(39, 0)) @@ (2017 :> Casualties(79, 4))
         @@ (2018 :> Casualties(88, 0)) @@ (2019 :> Casualties(96, 3))
         @@ (2020 :> Casualties(187, 0)) @@ (2021 :> Casualties(194, 0))
         @@ (2022 :> Casualties(228, 3)) @@ (2023 :> Casualties(264, 0))
         @@ (2024 :> Casualties(298, 2)) @@ (2025 :> Casualties(243, 2))))
    @@ ("E-Bike" :>
        ((2015 :> Casualties(0, 0)) @@ (2016 :> Casualties(188, 0))
         @@ (2017 :> Casualties(186, 0)) @@ (2018 :> Casualties(123, 0))
         @@ (2019 :> Casualties(132, 0)) @@ (2020 :> Casualties(62, 0))
         @@ (2021 :> Casualties(165, 3)) @@ (2022 :> Casualties(209, 2))
         @@ (2023 :> Casualties(205, 3)) @@ (2024 :> Casualties(166, 0))
         @@ (2025 :> Casualties(125, 3))))
    @@ ("E-Scooter" :>
        ((2019 :> Casualties(53, 0)) @@ (2020 :> Casualties(71, 2))
         @@ (2021 :> Casualties(100, 0)) @@ (2022 :> Casualties(117, 1))
         @@ (2023 :> Casualties(118, 0)) @@ (2024 :> Casualties(99, 1))
         @@ (2025 :> Casualties(53, 0))))

\* the tables the function is run on: the ones of the source, and smaller ones
\* with a year of no ridership, a year missing from the ridership table and
\* years without casualty data
RidershipTables ==
    { RIDERSHIP_DATA }
    \cup { [y \in Y |-> IF y \in Z THEN 0 ELSE RIDERSHIP_DATA[y]] :
             Y \in SUBSET {2019, 2024, 2025}, Z \in {{}, {2024}, {2025}} }

CasualtyTables ==
    { get_bike_casualty_data_by_year }
    \cup { [t \in T |-> [y \in Y |-> get_bike_casualty_data_by_year[t][y]]] :
             T \in {{"Traditional Bicycle"}, {"E-Bike", "E-Scooter"},
                    {"Traditional Bicycle", "E-Bike", "E-Scooter"}},
             Y \in {{}, {2019}, {2025}, {2019, 2024}, {2024, 2025}} }

\* sorted(...): ascending
RECURSIVE sorted(_)
sorted(S) ==
    IF S = {} THEN << >>
    ELSE LET least == CHOOSE x \in S : \A y \in S : x <= y
         IN  << least >> \o sorted(S \ {least})

\* the order of bike_casualties.items()
bike_type_order == << "Traditional Bicycle", "E-Bike", "E-Scooter" >>

\* the (bike_type, year) pairs the nested loops of calculate_casualty_rates
\* visit, in order (the year dicts are written in ascending year order)
RECURSIVE items(_, _)
items(bc, k) ==
    IF k > Len(bike_type_order) THEN << >>
    ELSE LET bike_type == bike_type_order[k]
             years == IF bike_type \in DOMAIN bc
                        THEN sorted(DOMAIN bc[bike_type]) ELSE << >>
         IN  [j \in 1 .. Len(years) |-> << bike_type, years[j] >>]
             \o items(bc, k + 1)

\* defaultdict(lambda: {'injured': 0, 'killed': 0, 'total': 0})
NewTotals == [injured |-> 0, killed |-> 0, total |-> 0]

\* the body of the nested loops: yearly_totals[year][...] += ...
add_totals(totals, year, casualties) ==
    LET old == IF year \in DOMAIN totals THEN totals[year] ELSE NewTotals
    IN  (year :> [injured |-> old.injured + casualties.injured,
                  killed  |-> old.killed + casualties.killed,
                  total   |-> old.total + casualties.injured + casualties.killed])
        @@ totals

\* faulty variant: years without ridership are not left out
has_rate_unguarded(totals, rides_of, year) == year \in DOMAIN totals

\* if year in yearly_totals and RIDERSHIP_DATA[year] > 0
has_rate(totals, rides_of, year) == year \in DOMAIN totals /\ rides_of[year] > 0

\* (count / rides) * 1000000
per_million(count, rides) == RMul(RDiv(R(count), R(rides)), R(1000000))

\* the entry appended to casualty_rates
rate_entry(totals, rides_of, year) ==
    [year |-> year,
     rides |-> rides_of[year],
     casualties |-> totals[year].total,
     injured |-> totals[year].injured,
     killed |-> totals[year].killed,
     casualty_rate_per_million |-> per_million(totals[year].total, rides_of[year]),
     injury_rate_per_million |-> per_million(totals[year].injured, rides_of[year]),
     fatality_rate_per_million |-> per_million(totals[year].killed, rides_of[year]),
     is_projected |-> (year = 2025)]

-----------------------------------------------------------------------------
(* The batch job.                                                          *)

\* what the script finds at the input path
FileStates == {"ok", "not_found", "unreadable", "missing_column"}

\* the records of the file a script reads
InputRows(s) == IF s \in RidershipScripts THEN RidershipRows ELSE RowsOf(s)

\* for _, row in df.iterrows(): the position after the current one
iterrows_next(i) == i + 1

VARIABLES
    script,               \* which script runs
    pc,                   \* position in main(): load, extract, loop, done, ...
    file,                 \* what is found at the input path
    csv,                  \* the rows of the input file
    df,                   \* the frame load_and_preprocess_data returns
    idx,                  \* position of df.iterrows()
    visited,              \* history: the positions the loop body has been given
    category_casualties,  \* the table of the consolidated script
    category_casualties_64, \* the same table, its values as Python's floats
    yearly_data,          \* the table of the yearly and the bike script
    days_in_2025,         \* observed days of 2025
    projection_factor,    \* 365 / days_in_2025, or 1.0
    daily_counts,         \* the sums by day of analyze_bicycle_counts.py
    yearly_counts,        \* the sums by year of yearly_ridership.py
    exit_status,          \* the status the process ends with (-1: running)
    raw_label,            \* one label slot (classifier runs)
    slot_out,             \* what that slot appends to the record's category list
    vehicle_casualties,   \* the table keyed by raw name (pedestrian_analysis.py)
    cleaned_vehicle_data, \* the same table keyed by cleaned name
    ridership,            \* the ridership table calculate_casualty_rates reads
    bike_casualties,      \* the casualty table calculate_casualty_rates reads
    yearly_totals,        \* its sums by year over the bike types
    casualty_rates        \* the list it returns

\* the tables of the per-vehicle-type script
vehicle_vars == << vehicle_casualties, cleaned_vehicle_data >>

\* the tables of calculate_casualty_rates
rate_vars == << ridership, bike_casualties, yearly_totals, casualty_rates >>

\* the tables of the consolidated, yearly, bike and ridership scripts and the
\* classifier's slot
batch_vars == << category_casualties, category_casualties_64, yearly_data,
                days_in_2025, projection_factor, daily_counts, yearly_counts,
                raw_label, slot_out >>

vars == << script, pc, file, csv, df, idx, visited, category_casualties,
           category_casualties_64, yearly_data,
           days_in_2025, projection_factor, daily_counts, yearly_counts,
           exit_status, raw_label, slot_out, vehicle_casualties,
           cleaned_vehicle_data, ridership, bike_casualties, yearly_totals,
           casualty_rates >>

Init ==
    /\ script \in Scripts \cup RidershipScripts
    /\ file \in FileStates
    /\ csv \in (IF file = "ok" THEN SeqsUpTo(InputRows(script), MaxRows) ELSE {<< >>})
    /\ pc = "load"
    /\ df = << >>
    /\ idx = 1
    /\ visited = << >>
    /\ category_casualties = EmptyDict
    /\ category_casualties_64 = EmptyDict
    /\ yearly_data = EmptyDict
    /\ days_in_2025 = NaN
    /\ projection_factor = R(1)
    /\ daily_counts = EmptyDict
    /\ yearly_counts = EmptyDict
    /\ exit_status = -1
    /\ raw_label = NA
    /\ slot_out = << >>
    /\ vehicle_casualties = EmptyDict
    /\ cleaned_vehicle_data = EmptyDict
    /\ ridership = EmptyDict
    /\ bike_casualties = EmptyDict
    /\ yearly_totals = EmptyDict
    /\ casualty_rates = << >>

\* load_and_preprocess_data of the three collision scripts: sys.exit(1) when
\* the file is not there, cannot be read or lacks a required column
LoadFails ==
    /\ pc = "load" /\ script \in Scripts /\ file # "ok"
    /\ pc' = "exit"
    /\ exit_status' = 1
    /\ UNCHANGED << vehicle_vars, rate_vars, category_casualties_64, script, file, csv, df, idx, visited, category_casualties,
                    yearly_data, days_in_2025, projection_factor, daily_counts,
                    yearly_counts, raw_label, slot_out >>

LoadConsolidated ==
    /\ pc = "load" /\ script = "consolidated" /\ file = "ok"
    /\ IF filter_raises(csv)
         THEN \* TypeError, not caught: traceback, status 1
              pc' = "exit" /\ exit_status' = 1 /\ UNCHANGED df
         ELSE df' = load_consolidated(csv) /\ pc' = "extract" /\ UNCHANGED exit_status
    /\ UNCHANGED << vehicle_vars, rate_vars, category_casualties_64, script, file, csv, idx, visited, category_casualties, yearly_data,
                    days_in_2025, projection_factor, daily_counts, yearly_counts,
                    raw_label, slot_out >>

LoadYearly ==
    /\ pc = "load" /\ script = "yearly" /\ file = "ok"
    /\ df' = load_yearly(csv)
    /\ pc' = "extract"
    /\ UNCHANGED << vehicle_vars, rate_vars, category_casualties_64, script, file, csv, idx, visited, category_casualties, yearly_data,
                    days_in_2025, projection_factor, daily_counts, yearly_counts,
                    exit_status, raw_label, slot_out >>

LoadBike ==
    /\ pc = "load" /\ script = "bike" /\ file = "ok"
    /\ df' = load_bike(csv)
    /\ pc' = "extract"
    /\ UNCHANGED << vehicle_vars, rate_vars, category_casualties_64, script, file, csv, idx, visited, category_casualties, yearly_data,
                    days_in_2025, projection_factor, daily_counts, yearly_counts,
                    exit_status, raw_label, slot_out >>

\* extract_and_categorize_vehicles up to its loop
BeginCategorize ==
    /\ pc = "extract" /\ script = "consolidated"
    /\ category_casualties' = EmptyDict
    /\ category_casualties_64' = EmptyDict
    /\ idx' = 1
    /\ pc' = "loop"
    /\ UNCHANGED << vehicle_vars, rate_vars, script, file, csv, df, visited, yearly_data, days_in_2025,
                    projection_factor, daily_counts, yearly_counts, exit_status,
                    raw_label, slot_out >>

\* extract_yearly_data_by_category / extract_bike_data_by_year up to the loop
BeginYearly ==
    /\ pc = "extract" /\ script \in {"yearly", "bike"}
    /\ yearly_data' = EmptyDict
    /\ days_in_2025' = days_since_2025(max_date(df))
    /\ projection_factor' = factor_of(days_in_2025')
    /\ idx' = 1
    /\ pc' = "loop"
    /\ UNCHANGED << vehicle_vars, rate_vars, category_casualties_64, script, file, csv, df, visited, category_casualties, daily_counts,
                    yearly_counts, exit_status, raw_label, slot_out >>

\* the loop body is given df[idx]; an exception the try block lets out ends
\* the run with a traceback (status 1), the table is never returned
CategorizeRow ==
    /\ pc = "loop" /\ script = "consolidated" /\ idx <= Len(df)
    /\ visited' = Append(visited, idx)
    /\ IF counts_overflow(df[idx])
         THEN /\ pc' = "exit" /\ exit_status' = 1
              /\ UNCHANGED << idx, category_casualties, category_casualties_64 >>
         ELSE /\ category_casualties' = consolidated_fold(category_casualties, df[idx])
              /\ category_casualties_64' =
                    consolidated_fold_64(category_casualties_64, df[idx])
              /\ idx' = iterrows_next(idx)
              /\ UNCHANGED << pc, exit_status >>
    /\ UNCHANGED << vehicle_vars, rate_vars, script, file, csv, df, yearly_data, days_in_2025,
                    projection_factor, daily_counts, yearly_counts, raw_label, slot_out >>

YearlyRow ==
    /\ pc = "loop" /\ script = "yearly" /\ idx <= Len(df)
    /\ visited' = Append(visited, idx)
    /\ IF counts_overflow(df[idx])
         THEN /\ pc' = "exit" /\ exit_status' = 1
              /\ UNCHANGED << idx, yearly_data >>
         ELSE /\ yearly_data' = yearly_fold(yearly_data, df[idx], projection_factor)
              /\ idx' = iterrows_next(idx)
              /\ UNCHANGED << pc, exit_status >>
    /\ UNCHANGED << vehicle_vars, rate_vars, category_casualties_64, script, file, csv, df, category_casualties, days_in_2025,
                    projection_factor, daily_counts, yearly_counts, raw_label, slot_out >>

BikeRow ==
    /\ pc = "loop" /\ script = "bike" /\ idx <= Len(df)
    /\ visited' = Append(visited, idx)
    /\ IF counts_overflow(df[idx])
         THEN /\ pc' = "exit" /\ exit_status' = 1
              /\ UNCHANGED << idx, yearly_data >>
         ELSE /\ yearly_data' = bike_fold(yearly_data, df[idx], projection_factor)
              /\ idx' = iterrows_next(idx)
              /\ UNCHANGED << pc, exit_status >>
    /\ UNCHANGED << vehicle_vars, rate_vars, category_casualties_64, script, file, csv, df, category_casualties, days_in_2025,
                    projection_factor, daily_counts, yearly_counts, raw_label, slot_out >>

\* return dict(...)
Return ==
    /\ pc = "loop" /\ idx > Len(df)
    /\ pc' = "done"
    /\ UNCHANGED << vehicle_vars, rate_vars, category_casualties_64, script, file, csv, df, idx, visited, category_casualties,
                    yearly_data, days_in_2025, projection_factor, daily_counts,
                    yearly_counts, exit_status, raw_label, slot_out >>

\* main: the chart functions, given the returned table
CreateCharts ==
    /\ pc = "done"
    /\ IF charts_raise(script, category_casualties, yearly_data)
         THEN pc' = "exit" /\ exit_status' = 1 /\ UNCHANGED yearly_data
         ELSE /\ pc' = "charted"
              /\ yearly_data' =
                    CASE script = "yearly" -> create_yearly_trends_charts(yearly_data)
                      [] script = "bike" -> create_bike_comparison_charts(yearly_data)
                      [] OTHER -> yearly_data
              /\ UNCHANGED exit_status
    /\ UNCHANGED << vehicle_vars, rate_vars, category_casualties_64, script, file, csv, df, idx, visited, category_casualties,
                    days_in_2025, projection_factor, daily_counts, yearly_counts,
                    raw_label, slot_out >>

\* main: the report function (generate_console_report, generate_yearly_report,
\* generate_bike_analysis_data), then the end of main
GenerateReport ==
    /\ pc = "charted"
    /\ pc' = "exit"
    /\ IF report_raises(script, category_casualties, yearly_data)
         THEN exit_status' = 1 /\ UNCHANGED yearly_data
         ELSE /\ exit_status' = 0
              /\ yearly_data' =
                    CASE script = "yearly" -> generate_yearly_report(yearly_data)
                      [] script = "bike" -> generate_bike_analysis_data(yearly_data)
                      [] OTHER -> yearly_data
    /\ UNCHANGED << vehicle_vars, rate_vars, category_casualties_64, script, file, csv, df, idx, visited, category_casualties,
                    days_in_2025, projection_factor, daily_counts, yearly_counts,
                    raw_label, slot_out >>

\* main of a ridership script, the file not there, unreadable or without a
\* column: the exception is caught, a message is printed and main returns
RidershipLoadFails ==
    /\ pc = "load" /\ script \in RidershipScripts /\ file # "ok"
    /\ pc' = "exit"
    /\ exit_status' = 0
    /\ UNCHANGED << vehicle_vars, rate_vars, category_casualties_64, script, file, csv, df, idx, visited, category_casualties,
                    yearly_data, days_in_2025, projection_factor, daily_counts,
                    yearly_counts, raw_label, slot_out >>

\* load_and_process_data / load_and_process_yearly_data
RidershipLoad ==
    /\ pc = "load" /\ script \in RidershipScripts /\ file = "ok"
    /\ IF script = "yearly_ridership"
         THEN yearly_counts' = groupby_sum(csv, TRUE) /\ UNCHANGED daily_counts
         ELSE daily_counts' = groupby_sum(csv, FALSE) /\ UNCHANGED yearly_counts
    /\ pc' = "aggregated"
    /\ UNCHANGED << vehicle_vars, rate_vars, category_casualties_64, script, file, csv, df, idx, visited, category_casualties,
                    yearly_data, days_in_2025, projection_factor, exit_status,
                    raw_label, slot_out >>

\* the rest of main of a ridership script: projection, chart, statistics; what
\* they raise is caught by main's except clauses, and main returns
RidershipReport ==
    /\ pc = "aggregated"
    /\ pc' = "exit"
    /\ exit_status' = 0
    /\ UNCHANGED << vehicle_vars, rate_vars, category_casualties_64, script, file, csv, df, idx, visited, category_casualties,
                    yearly_data, days_in_2025, projection_factor, daily_counts,
                    yearly_counts, raw_label, slot_out >>

Next ==
    \/ LoadFails \/ LoadConsolidated \/ LoadYearly \/ LoadBike
    \/ BeginCategorize \/ BeginYearly
    \/ CategorizeRow \/ YearlyRow \/ BikeRow
    \/ Return
    \/ CreateCharts \/ GenerateReport
    \/ RidershipLoadFails \/ RidershipLoad \/ RidershipReport

Spec == Init /\ [][Next]_vars

\* the positions of a run; "exit" is the process having ended
PcValues == {"load", "extract", "loop", "done", "charted", "aggregated", "exit"}

\* control moves on: every step of Next changes pc or idx, and a step of Next
\* can be taken in every state whose pc is not "exit"
Advance ==
    /\ pc # "exit"
    /\ pc' \in PcValues
    /\ idx' \in 0 .. MaxRows + 1

\* the interpreter runs the script on: a process that has not ended moves on
FairSpec == Spec /\ WF_<< pc, idx >>(Advance)

-----------------------------------------------------------------------------
(* The classifier on its own: one label slot, each script's classifier.    *)

ClassifyInit ==
    /\ script \in Scripts
    /\ raw_label \in Labels
    /\ pc = "slot"
    /\ slot_out = << >>
    /\ file = "ok"
    /\ csv = << >>
    /\ df = << >>
    /\ idx = 1
    /\ visited = << >>
    /\ daily_counts = EmptyDict
    /\ yearly_counts = EmptyDict
    /\ exit_status = -1
    /\ category_casualties = EmptyDict
    /\ category_casualties_64 = EmptyDict
    /\ yearly_data = EmptyDict
    /\ days_in_2025 = NaN
    /\ projection_factor = R(1)
    /\ vehicle_casualties = EmptyDict
    /\ cleaned_vehicle_data = EmptyDict
    /\ ridership = EmptyDict
    /\ bike_casualties = EmptyDict
    /\ yearly_totals = EmptyDict
    /\ casualty_rates = << >>

ClassifyCoarse ==
    /\ pc = "slot" /\ script \in {"consolidated", "yearly"}
    /\ slot_out' = coarse_slot(raw_label)
    /\ pc' = "classified"
    /\ UNCHANGED << vehicle_vars, rate_vars, category_casualties_64, script, file, csv, df, idx, visited, category_casualties,
                    yearly_data, days_in_2025, projection_factor, daily_counts,
                    yearly_counts, exit_status, raw_label >>

ClassifyBike ==
    /\ pc = "slot" /\ script = "bike"
    /\ slot_out' = bike_slot(raw_label)
    /\ pc' = "classified"
    /\ UNCHANGED << vehicle_vars, rate_vars, category_casualties_64, script, file, csv, df, idx, visited, category_casualties,
                    yearly_data, days_in_2025, projection_factor, daily_counts,
                    yearly_counts, exit_status, raw_label >>

ClassifyNext == ClassifyCoarse \/ ClassifyBike

ClassifySpec == ClassifyInit /\ [][ClassifyNext]_vars

-----------------------------------------------------------------------------
(* The per-vehicle-type script as a batch job: load, extract, clean,       *)
(* charts, report.                                                         *)

VehicleInit ==
    /\ script = "vehicle_types"
    /\ file \in FileStates
    /\ csv \in (IF file = "ok" THEN SeqsUpTo(VehicleRows, MaxRows) ELSE {<< >>})
    /\ pc = "load"
    /\ df = << >>
    /\ idx = 1
    /\ visited = << >>
    /\ vehicle_casualties = EmptyDict
    /\ cleaned_vehicle_data = EmptyDict
    /\ exit_status = -1
    /\ category_casualties = EmptyDict
    /\ category_casualties_64 = EmptyDict
    /\ yearly_data = EmptyDict
    /\ days_in_2025 = NaN
    /\ projection_factor = R(1)
    /\ daily_counts = EmptyDict
    /\ yearly_counts = EmptyDict
    /\ raw_label = NA
    /\ slot_out = << >>
    /\ ridership = EmptyDict
    /\ bike_casualties = EmptyDict
    /\ yearly_totals = EmptyDict
    /\ casualty_rates = << >>

\* load_and_preprocess_data: sys.exit(1) when the file is not there, cannot be
\* read or lacks a required column
VehicleLoadFails ==
    /\ pc = "load" /\ script = "vehicle_types" /\ file # "ok"
    /\ pc' = "exit"
    /\ exit_status' = 1
    /\ UNCHANGED << script, file, csv, df, idx, visited, vehicle_vars, rate_vars,
                    batch_vars >>

\* load_and_preprocess_data: the records with a pedestrian casualty
VehicleLoad ==
    /\ pc = "load" /\ script = "vehicle_types" /\ file = "ok"
    /\ IF filter_raises(csv)
         THEN \* TypeError, not caught: traceback, status 1
              pc' = "exit" /\ exit_status' = 1 /\ UNCHANGED df
         ELSE df' = load_consolidated(csv) /\ pc' = "extract" /\ UNCHANGED exit_status
    /\ UNCHANGED << script, file, csv, idx, visited, vehicle_vars, rate_vars,
                    batch_vars >>

\* extract_vehicle_types up to its loop
BeginExtract ==
    /\ pc = "extract" /\ script = "vehicle_types"
    /\ vehicle_casualties' = EmptyDict
    /\ idx' = 1
    /\ pc' = "loop"
    /\ UNCHANGED << script, file, csv, df, visited, cleaned_vehicle_data,
                    exit_status, rate_vars, batch_vars >>

\* the loop body is given df[idx]; an exception the try block lets out ends
\* the run with a traceback (status 1)
ExtractRow ==
    /\ pc = "loop" /\ script = "vehicle_types" /\ idx <= Len(df)
    /\ visited' = Append(visited, idx)
    /\ IF counts_overflow(df[idx])
         THEN /\ pc' = "exit" /\ exit_status' = 1
              /\ UNCHANGED << idx, vehicle_casualties >>
         ELSE /\ vehicle_casualties' =
                    extract_vehicle_types_row(vehicle_casualties, df[idx])
              /\ idx' = iterrows_next(idx)
              /\ UNCHANGED << pc, exit_status >>
    /\ UNCHANGED << script, file, csv, df, cleaned_vehicle_data, rate_vars,
                    batch_vars >>

\* return vehicle_casualties
ExtractReturn ==
    /\ pc = "loop" /\ script = "vehicle_types" /\ idx > Len(df)
    /\ pc' = "extracted"
    /\ UNCHANGED << script, file, csv, df, idx, visited, exit_status, vehicle_vars,
                    rate_vars, batch_vars >>

\* main: cleaned_vehicle_data = clean_vehicle_types(vehicle_casualties)
CleanVehicleTypes ==
    /\ pc = "extracted"
    /\ cleaned_vehicle_data' = clean_vehicle_types(vehicle_casualties)
    /\ pc' = "done"
    /\ UNCHANGED << script, file, csv, df, idx, visited, exit_status,
                    vehicle_casualties, rate_vars, batch_vars >>

\* main: df_plot = create_visualizations(cleaned_vehicle_data)
CreateVisualizations ==
    /\ pc = "done" /\ script = "vehicle_types"
    /\ IF create_visualizations_raises(cleaned_vehicle_data)
         THEN pc' = "exit" /\ exit_status' = 1
         ELSE pc' = "charted" /\ UNCHANGED exit_status
    /\ UNCHANGED << script, file, csv, df, idx, visited, vehicle_vars, rate_vars,
                    batch_vars >>

\* main: generate_report(cleaned_vehicle_data, df_plot), then the end of main
VehicleReport ==
    /\ pc = "charted" /\ script = "vehicle_types"
    /\ pc' = "exit"
    /\ exit_status' = IF generate_report_raises(cleaned_vehicle_data) THEN 1 ELSE 0
    /\ UNCHANGED << script, file, csv, df, idx, visited, vehicle_vars, rate_vars,
                    batch_vars >>

VehicleNext ==
    \/ VehicleLoadFails \/ VehicleLoad
    \/ BeginExtract \/ ExtractRow \/ ExtractReturn
    \/ CleanVehicleTypes
    \/ CreateVisualizations \/ VehicleReport

VehicleSpec == VehicleInit /\ [][VehicleNext]_vars

-----------------------------------------------------------------------------
(* calculate_casualty_rates, one loop iteration at a time.                 *)

RateInit ==
    /\ script = "casualty_rate"
    /\ ridership \in RidershipTables
    /\ bike_casualties \in CasualtyTables
    /\ yearly_totals = EmptyDict
    /\ casualty_rates = << >>
    /\ pc = "totals"
    /\ idx = 1
    /\ file = "ok"
    /\ csv = << >>
    /\ df = << >>
    /\ visited = << >>
    /\ vehicle_casualties = EmptyDict
    /\ cleaned_vehicle_data = EmptyDict
    /\ exit_status = -1
    /\ category_casualties = EmptyDict
    /\ category_casualties_64 = EmptyDict
    /\ yearly_data = EmptyDict
    /\ days_in_2025 = NaN
    /\ projection_factor = R(1)
    /\ daily_counts = EmptyDict
    /\ yearly_counts = EmptyDict
    /\ raw_label = NA
    /\ slot_out = << >>

\* for bike_type, year_data in bike_casualties.items():
\*     for year, casualties in year_data.items(): one iteration
AccumulateTotals ==
    /\ pc = "totals" /\ idx <= Len(items(bike_casualties, 1))
    /\ LET item == items(bike_casualties, 1)[idx]
       IN  yearly_totals' =
              add_totals(yearly_totals, item[2], bike_casualties[item[1]][item[2]])
    /\ idx' = idx + 1
    /\ UNCHANGED << script, pc, file, csv, df, visited, exit_status, ridership,
                    bike_casualties, casualty_rates, vehicle_vars, batch_vars >>

\* casualty_rates = []
BeginRates ==
    /\ pc = "totals" /\ idx > Len(items(bike_casualties, 1))
    /\ casualty_rates' = << >>
    /\ idx' = 1
    /\ pc' = "rates"
    /\ UNCHANGED << script, file, csv, df, visited, exit_status, ridership,
                    bike_casualties, yearly_totals, vehicle_vars, batch_vars >>

\* for year in sorted(RIDERSHIP_DATA.keys()): one iteration
RateYear ==
    /\ pc = "rates" /\ idx <= Len(sorted(DOMAIN ridership))
    /\ LET year == sorted(DOMAIN ridership)[idx]
       IN  casualty_rates' =
              IF has_rate(yearly_totals, ridership, year)
                THEN Append(casualty_rates, rate_entry(yearly_totals, ridership, year))
                ELSE casualty_rates
    /\ idx' = idx + 1
    /\ UNCHANGED << script, pc, file, csv, df, visited, exit_status, ridership,
                    bike_casualties, yearly_totals, vehicle_vars, batch_vars >>

\* return casualty_rates
ReturnRates ==
    /\ pc = "rates" /\ idx > Len(sorted(DOMAIN ridership))
    /\ pc' = "returned"
    /\ UNCHANGED << script, file, csv, df, idx, visited, exit_status, rate_vars,
                    vehicle_vars, batch_vars >>

RateNext == AccumulateTotals \/ BeginRates \/ RateYear \/ ReturnRates

RateSpec == RateInit /\ [][RateNext]_vars

-----------------------------------------------------------------------------
(* Vocabulary of the properties.                                           *)

\* a slot that is missing, empty, whitespace or a missing-sentinel
IsSentinel(l) == l = NA \/ strip(l) = "" \/ upper(strip(l)) \in {"UNKNOWN", "NAN"}

AllSentinel(row) == \A col \in vehicle_cols : IsSentinel(row.labels[col])

\* the set of distinct categories a record resolves to, per classifier
CoarseCats(row) ==
    { mapping_get(strip(row.labels[col])) :
        col \in { c \in vehicle_cols : ~IsSentinel(row.labels[c]) } }

BikeCats(row) ==
    { bike_mapping[strip(row.labels[col])] :
        col \in { c \in vehicle_cols : /\ row.labels[c] # NA
                                       /\ strip(row.labels[c]) \in DOMAIN bike_mapping } }

CatsOf(s, row) == IF s = "bike" THEN BikeCats(row) ELSE CoarseCats(row)

Numeric(row) == ~row.injured.isna /\ ~row.killed.isna

\* the bucket of a record: its calendar year (one bucket, 0, when the script
\* keeps no years)
BucketOf(s, row) == IF s = "consolidated" THEN 0 ELSE row.YEAR.v

\* the tally of (category, bucket) in a table of script s; zero when absent
TallyIn(s, cc, yd, c, y) ==
    IF s = "consolidated"
        THEN IF c \in DOMAIN cc THEN cc[c] ELSE NewTally
        ELSE IF c \in DOMAIN yd /\ y \in DOMAIN yd[c] THEN yd[c][y] ELSE NewTally

\* every (category, bucket) key of a table of script s
KeysIn(s, cc, yd) ==
    IF s = "consolidated"
        THEN { << c, 0 >> : c \in DOMAIN cc }
        ELSE UNION { { << c, y >> : y \in DOMAIN yd[c] } : c \in DOMAIN yd }

RECURSIVE SumOver(_, _)
SumOver(f, S) ==
    IF S = {} THEN Zero
    ELSE LET x == CHOOSE x \in S : TRUE IN RAdd(f[x], SumOver(f, S \ {x}))

InjuredTotalIn(s, cc, yd) ==
    LET K == KeysIn(s, cc, yd)
    IN  SumOver([k \in K |-> TallyIn(s, cc, yd, k[1], k[2]).injured], K)

KilledTotalIn(s, cc, yd) ==
    LET K == KeysIn(s, cc, yd)
    IN  SumOver([k \in K |-> TallyIn(s, cc, yd, k[1], k[2]).killed], K)

\* the same, of the current table
Tally(c, y)  == TallyIn(script, category_casualties, yearly_data, c, y)
Keys         == KeysIn(script, category_casualties, yearly_data)
InjuredTotal == InjuredTotalIn(script, category_casualties, yearly_data)
KilledTotal  == KilledTotalIn(script, category_casualties, yearly_data)

\* the same, of the table after the step
TallyNext(c, y)  == TallyIn(script, category_casualties', yearly_data', c, y)
InjuredTotalNext == InjuredTotalIn(script, category_casualties', yearly_data')
KilledTotalNext  == KilledTotalIn(script, category_casualties', yearly_data')

\* the loop body runs on df[idx]
FoldStep == pc = "loop" /\ idx <= Len(df) /\ idx' = idx + 1

\* the record's count as the loop body splits it: times the factor in 2025
Scaled(s, row, count) ==
    IF s # "consolidated" /\ row.YEAR.v = 2025
        THEN RMul(R(count.v), projection_factor) ELSE R(count.v)

\* a record the loop attributes: numeric counts and at least one category
Attributed(s, row) == Numeric(row) /\ CatsOf(s, row) # {}

-----------------------------------------------------------------------------
(* Properties.                                                             *)

\* C1 - Conservation: when the coarse fold (consolidated or yearly script)
\* processes one record with injured = I, killed = K and at least one resolved
\* category, the amounts it adds over all categories sum to exactly I and K
\* (to factor * I and factor * K for a record of 2025, whose counts the
\* yearly script scales before splitting).
C1_Conservation ==
    [][ (FoldStep /\ script \in {"consolidated", "yearly"} /\ Attributed(script, df[idx]))
          => /\ RSub(InjuredTotalNext, InjuredTotal)
                    = Scaled(script, df[idx], df[idx].injured)
             /\ RSub(KilledTotalNext, KilledTotal)
                    = Scaled(script, df[idx], df[idx].killed) ]_vars

\* C1 witness: a record with injured 1 over three distinct categories was
\* folded; each got a third and the table holds 1 in total.
C1_Witness ==
    /\ script = "consolidated" /\ pc = "loop" /\ idx = 2
    /\ Cardinality(CoarseCats(df[1])) = 3
    /\ df[1].injured = Cell(1)
    /\ Tally("Taxi/Livery", 0).injured = Norm(1, 3)
    /\ InjuredTotal = R(1)

\* C2 - Exclusion: folding a record whose five label slots are all missing,
\* empty, whitespace or a missing-sentinel changes no tally and creates no
\* key, whatever its injured and killed values are.
C2_Exclusion ==
    [][ (FoldStep /\ AllSentinel(df[idx]))
          => UNCHANGED << category_casualties, yearly_data >> ]_vars

\* C2 witness: an all-sentinel record with nonzero counts was folded after a
\* record that had put tallies into the table.
C2_Witness ==
    /\ script = "yearly" /\ pc = "loop" /\ idx = 3
    /\ AllSentinel(df[2]) /\ Positive(df[2].injured) /\ Positive(df[2].killed)
    /\ Keys # {}

\* C3 - Duplicate-attribution splitting: with n the number of DISTINCT
\* categories of an attributed record, the fold adds exactly injured / n and
\* killed / n to each of them (injured, killed as the loop has them: scaled
\* for a record of 2025), however many slots resolved to the category, and
\* adds to no other category.  In the bike script this is for records of 2020
\* and later.
C3_DistinctSplit ==
    [][ (FoldStep /\ Attributed(script, df[idx])
           /\ (script = "bike" => df[idx].YEAR.v >= 2020))
          => LET row == df[idx]
                 cats == CatsOf(script, row)
                 n == Cardinality(cats)
                 y == BucketOf(script, row)
             IN  \A c \in cats \cup { k[1] : k \in Keys } :
                    /\ RSub(TallyNext(c, y).injured, Tally(c, y).injured)
                         = IF c \in cats
                             THEN RDiv(Scaled(script, row, row.injured), R(n))
                             ELSE Zero
                    /\ RSub(TallyNext(c, y).killed, Tally(c, y).killed)
                         = IF c \in cats
                             THEN RDiv(Scaled(script, row, row.killed), R(n))
                             ELSE Zero ]_vars

\* C3 witness: Sedan, SEDAN and Taxi in one record with injured 3: two
\* distinct categories, 3/2 each.
C3_Witness ==
    /\ script = "consolidated" /\ pc = "loop" /\ idx = 2
    /\ df[1].labels[1] = "Sedan" /\ df[1].labels[2] = "SEDAN" /\ df[1].labels[3] = "Taxi"
    /\ df[1].injured = Cell(3)
    /\ Tally("Passenger Vehicles", 0).injured = Norm(3, 2)
    /\ Tally("Taxi/Livery", 0).injured = Norm(3, 2)

\* the table a script classifies with
TableOf(s) == IF s = "bike" THEN bike_mapping ELSE category_mapping

\* C4 (as claimed) - Classifier totality: for a non-sentinel label the coarse
\* classifier yields one category; the table's value when the trimmed label
\* is a key; and 'Other/Unknown' exactly when the trimmed label is not a key.
C4_FallbackIffNotKey ==
    (pc = "classified" /\ script # "bike" /\ ~IsSentinel(raw_label))
      => /\ Len(slot_out) = 1
         /\ strip(raw_label) \in DOMAIN category_mapping
              => slot_out[1] = category_mapping[strip(raw_label)]
         /\ slot_out[1] = "Other/Unknown"
              <=> strip(raw_label) \notin DOMAIN category_mapping

\* C4 (amended) - for a non-sentinel label the coarse classifier yields one
\* category: the table's value when the trimmed label is (case-sensitively) a
\* key, 'Other/Unknown' whenever it is not a key; the only key for which it
\* also yields 'Other/Unknown' is 'OTHER', which the table maps to it.
C4_Totality ==
    (pc = "classified" /\ script # "bike" /\ ~IsSentinel(raw_label))
      => /\ Len(slot_out) = 1
         /\ strip(raw_label) \in DOMAIN category_mapping
              => slot_out[1] = category_mapping[strip(raw_label)]
         /\ strip(raw_label) \notin DOMAIN category_mapping
              => slot_out[1] = "Other/Unknown"
         /\ (slot_out[1] = "Other/Unknown" /\ strip(raw_label) \in DOMAIN category_mapping)
              => strip(raw_label) = "OTHER"

\* C4 witness: 'sedan' (lower case, not a key) was classified as the fallback.
C4_Witness ==
    /\ pc = "classified" /\ script = "yearly"
    /\ raw_label = "sedan"
    /\ slot_out = << "Other/Unknown" >>

\* C5 - Case variants agree: when a key of a classifier table and its
\* all-caps spelling are both keys, the classifier gives the key the category
\* the table holds for the all-caps spelling (coarse and bike table).
C5_CaseVariantsAgree ==
    (/\ pc = "classified"
     /\ raw_label \in DOMAIN TableOf(script)
     /\ upper(raw_label) # raw_label
     /\ upper(raw_label) \in DOMAIN TableOf(script))
      => slot_out = << TableOf(script)[upper(raw_label)] >>

\* C5 witness: 'Sedan' was classified and 'SEDAN' is a key too.
C5_Witness ==
    /\ pc = "classified" /\ script = "consolidated"
    /\ raw_label = "Sedan" /\ upper(raw_label) = "SEDAN"
    /\ "SEDAN" \in DOMAIN category_mapping
    /\ slot_out = << "Passenger Vehicles" >>

\* three same-year records: [Bike] 10, [Bike, Car] 6, [BIKE, E-BIKE] 9 injured
BikeScenario ==
    << Row(Cell(-100), Cell(10), Cell(0), << "Bike" >>),
       Row(Cell(-100), Cell(6), Cell(0), << "Bike", "Car" >>),
       Row(Cell(-100), Cell(9), Cell(0), << "BIKE", "E-BIKE" >>) >>

Categories ==
    { category_mapping[k] : k \in DOMAIN category_mapping }
    \cup { bike_mapping[k] : k \in DOMAIN bike_mapping } \cup {"Other/Unknown"}

Buckets == 2019 .. 2026

\* the categories and buckets that the frame's records or the table's keys
\* name (every other tally and every other share sum is zero)
NamedCategories ==
    { k[1] : k \in Keys } \cup UNION { CatsOf(script, df[j]) : j \in 1 .. Len(df) }

NamedBuckets ==
    { k[2] : k \in Keys } \cup { BucketOf(script, df[j]) : j \in 1 .. Len(df) }

\* a record the yearly / bike loop adds to the table
Counted(s, row) == Attributed(s, row) /\ (s = "bike" => row.YEAR.v >= 2020)

\* the unscaled share of one record for (category, bucket): count / n
ShareOf(s, row, c, y) ==
    IF Counted(s, row) /\ c \in CatsOf(s, row) /\ BucketOf(s, row) = y
        THEN LET n == Cardinality(CatsOf(s, row))
             IN  [injured |-> RDiv(R(row.injured.v), R(n)),
                  killed  |-> RDiv(R(row.killed.v), R(n))]
        ELSE NewTally

\* the sum of the unscaled shares of the first k records for (category, bucket)
RECURSIVE ShareSum(_, _, _, _, _)
ShareSum(s, rows, k, c, y) ==
    IF k = 0 THEN NewTally
    ELSE LET rest == ShareSum(s, rows, k - 1, c, y)
             this == ShareOf(s, rows[k], c, y)
         IN  [injured |-> RAdd(rest.injured, this.injured),
              killed  |-> RAdd(rest.killed, this.killed)]

\* the yearly or the bike loop is running or has returned
InYearlyFold == script \in {"yearly", "bike"} /\ pc \in {"loop", "done"}

\* C7 - Projection value: with observed_days > 0 and factor = 365 /
\* observed_days, the injured and the killed tally of every category for 2025
\* equal factor times the sum of the unscaled shares folded into it
\* (accumulated 100 and 2 with 146 observed days give 250 and 5).
C7_ProjectionValue ==
    (InYearlyFold /\ Positive(days_in_2025))
      => LET factor == RDiv(R(365), R(days_in_2025.v))
         IN  \A c \in NamedCategories :
                LET sum == ShareSum(script, df, idx - 1, c, 2025)
                IN  /\ Tally(c, 2025).injured = RMul(factor, sum.injured)
                    /\ Tally(c, 2025).killed = RMul(factor, sum.killed)

\* C7 witness: injured 100, killed 2 accumulated for 2025 with 146 observed
\* days stand at 250 and 5.
C7_Witness ==
    /\ script = "yearly" /\ pc = "done"
    /\ days_in_2025 = Cell(146)
    /\ ShareSum(script, df, Len(df), "Passenger Vehicles", 2025)
         = [injured |-> R(100), killed |-> R(2)]
    /\ Tally("Passenger Vehicles", 2025) = [injured |-> R(250), killed |-> R(5)]

\* project(table, bucket, factor): both fields of every category's tally for
\* the bucket times the factor, everything else as it is
Project(yd, bucket, factor) ==
    [c \in DOMAIN yd |->
        [y \in DOMAIN yd[c] |->
            IF y = bucket
                THEN [injured |-> RMul(yd[c][y].injured, factor),
                      killed  |-> RMul(yd[c][y].killed, factor)]
                ELSE yd[c][y]]]

\* the first k records folded with no scaling (factor 1)
RECURSIVE FoldUnscaled(_, _, _)
FoldUnscaled(s, rows, k) ==
    IF k = 0 THEN EmptyDict
    ELSE \* the table of the first k - 1 records is computed, then record k folded
         CHOOSE after \in
            { IF s = "bike" THEN bike_fold(before, rows[k], R(1))
                            ELSE yearly_fold(before, rows[k], R(1)) :
                before \in { FoldUnscaled(s, rows, k - 1) } } : TRUE

\* C8 - Scaling commutes with folding: the table the script builds by scaling
\* each 2025 record before folding it equals the table of the same records
\* folded unscaled with the finished 2025 tallies multiplied by the factor
\* once (same keys, same tallies).
C8_ScalingCommutes ==
    InYearlyFold
      => yearly_data = Project(FoldUnscaled(script, df, idx - 1), 2025, projection_factor)

\* C8 witness: two records of 2025 were folded with a factor other than 1.
C8_Witness ==
    /\ script = "yearly" /\ pc = "done"
    /\ projection_factor # R(1)
    /\ Cardinality({ k \in 1 .. Len(df) :
                       Counted(script, df[k]) /\ df[k].YEAR.v = 2025 }) >= 2
    /\ \E c \in Categories : Tally(c, 2025).injured # Zero

\* C9 - Zero-guard: when observed_days is not positive the factor is exactly
\* 1 (nothing is divided by observed_days) and every tally of every bucket
\* equals the plain sum of its unscaled shares.
C9_ZeroGuard ==
    (InYearlyFold /\ ~Positive(days_in_2025))
      => /\ projection_factor = R(1)
         /\ NamedCategories \subseteq Categories /\ NamedBuckets \subseteq Buckets
         /\ \A c \in NamedCategories, y \in NamedBuckets :
                Tally(c, y) = ShareSum(script, df, idx - 1, c, y)

\* C9 witness: the latest record is of 2024-12-31, observed_days is 0, and
\* records were folded.
C9_Witness ==
    /\ script = "yearly" /\ pc = "done"
    /\ days_in_2025 = Cell(0)
    /\ projection_factor = R(1)
    /\ Keys # {}

\* C10 - Projection frame: the tally of every category for every bucket other
\* than 2025 equals the plain sum of the unscaled shares of the records folded
\* into it.
C10_OtherBucketsUntouched ==
    InYearlyFold
      => \A c \in NamedCategories, y \in NamedBuckets \ {2025} :
            Tally(c, y) = ShareSum(script, df, idx - 1, c, y)

\* C10 witness: with a factor other than 1, a record of 2025 and a record of
\* 2026 were folded; the 2026 tally is the record's own count.
C10_Witness ==
    /\ script = "yearly" /\ pc = "done"
    /\ projection_factor # R(1)
    /\ Tally("Passenger Vehicles", 2025).injured # Zero
    /\ Tally("Van", 2026) = [injured |-> Norm(1, 2), killed |-> Norm(1, 2)]


-----------------------------------------------------------------------------
(* Order of projection and folding.                                        *)

\* the yearly or the bike loop body runs on df[idx] and passes it
YearlyFoldStep == FoldStep /\ script \in {"yearly", "bike"}

\* some category's tally for 2025 already holds an amount times a factor
\* other than 1
BucketScaled ==
    /\ projection_factor # R(1)
    /\ \E c \in NamedCategories : Tally(c, 2025) # NewTally

\* C11 (as stated) - Projection after folding: once bucket 2025 holds scaled
\* amounts, no record is folded into it any more: no fold step changes a
\* tally of 2025.
C11_NoFoldAfterScaling ==
    [][(YearlyFoldStep /\ BucketScaled)
          => \A c \in NamedCategories : TallyNext(c, 2025) = Tally(c, 2025)]_vars

\* C11 (amended) - Each amount is scaled exactly once, when its record is
\* folded: a fold step leaves every amount already in the table as it is and
\* adds, to each category of the record, the record's unscaled share times
\* the factor (for a record of 2025) or the unscaled share itself (any other
\* year); the factor is fixed before the first record and never changes.
C11_ScaledOncePerRecord ==
    [][/\ YearlyFoldStep
          => \A c \in NamedCategories, y \in NamedBuckets :
                LET share == ShareOf(script, df[idx], c, y)
                    f == IF y = 2025 THEN projection_factor ELSE R(1)
                IN  /\ TallyNext(c, y).injured
                         = RAdd(Tally(c, y).injured, RMul(f, share.injured))
                    /\ TallyNext(c, y).killed
                         = RAdd(Tally(c, y).killed, RMul(f, share.killed))
       /\ pc \in {"loop", "done", "charted"} => projection_factor' = projection_factor]_vars

\* C11 witness: a second record of 2025 has been folded into a category whose
\* 2025 tally already held a scaled amount; the tally is the factor times the
\* sum of both unscaled shares.
C11_Witness ==
    /\ script = "yearly" /\ pc = "loop" /\ idx = 3
    /\ projection_factor = Norm(365, 146)
    /\ df[1].YEAR.v = 2025 /\ df[2].YEAR.v = 2025
    /\ ShareOf(script, df[1], "Passenger Vehicles", 2025).injured = R(100)
    /\ ShareOf(script, df[2], "Passenger Vehicles", 2025).injured = R(100)
    /\ Tally("Passenger Vehicles", 2025).injured = R(500)

\* C12 - Scaled bucket: the bucket that is scaled is the bucket of the latest
\* record date, and observed_days is the number of days observed in that
\* bucket (from its first day to the latest date): the factor the script
\* holds is computed from those days, and every tally of that bucket is
\* 365 / observed_days times the sum of its unscaled shares.
C12_LatestBucketScaled ==
    (InYearlyFold /\ df # << >>)
      => LET latest_date == max_date(df)
             bucket == dt_year(latest_date).v
             observed_days == latest_date.v - YearStart[bucket] + 1
             factor == RDiv(R(365), R(observed_days))
         IN  /\ days_in_2025 = Cell(observed_days)
             /\ \A c \in NamedCategories :
                   LET sum == ShareSum(script, df, idx - 1, c, bucket)
                   IN  /\ Tally(c, bucket).injured = RMul(factor, sum.injured)
                       /\ Tally(c, bucket).killed = RMul(factor, sum.killed)

-----------------------------------------------------------------------------
(* Per-record defects.                                                     *)

\* a count with a non-numeric or missing value read as 0
Default0(c) == IF c.kind = "number" THEN Cell(c.v) ELSE Cell(0)

\* C13 - Numeric defaulting: a fold step of the consolidated or the yearly
\* script on a record with at least one category reads a missing or
\* non-numeric injured count as 0 and a missing or non-numeric killed count
\* as 0, each on its own: every category of the record has a tally afterwards
\* and the totals grow by the defaulted injured and the defaulted killed count
\* (times the factor for a record of 2025).
C13_FieldwiseDefault ==
    [][(FoldStep /\ script \in {"consolidated", "yearly"}
          /\ CatsOf(script, df[idx]) # {})
          => /\ \A c \in CatsOf(script, df[idx]) :
                   << c, BucketOf(script, df[idx]) >>
                       \in KeysIn(script, category_casualties', yearly_data')
             /\ InjuredTotalNext
                  = RAdd(InjuredTotal, Scaled(script, df[idx], Default0(df[idx].injured)))
             /\ KilledTotalNext
                  = RAdd(KilledTotal, Scaled(script, df[idx], Default0(df[idx].killed)))]_vars

\* C14 - Row-level resilience: whatever the record the loop body is given
\* (missing or unusable count, missing or unknown labels, missing year), the
\* fold does not raise: the loop stays in the loop and goes on to the next
\* record.
C14_FoldNeverRaises ==
    [][(pc = "loop" /\ idx <= Len(df)) => (pc' = "loop" /\ idx' = idx + 1)]_vars

\* the records of the file that carry a date
Dated(rows) ==
    LET HasDate(row) == ~row.date.isna
    IN  SelectSeq(rows, HasDate)

\* C15 - Undated records: in the yearly and the bike script a record whose
\* date is missing or unparseable is excluded entirely: the frame that is
\* folded is the one the same file without those records gives (so they
\* change no tally), no record of the frame lacks a year, and every bucket
\* key of the table is the calendar year of a dated record of the file.
C15_UndatedExcluded ==
    InYearlyFold
      => /\ df = (IF script = "bike" THEN load_bike(Dated(csv))
                                     ELSE load_yearly(Dated(csv)))
         /\ \A j \in 1 .. Len(df) : ~df[j].YEAR.isna
         /\ \A k \in Keys :
               /\ k[2] \in Buckets
               /\ \E j \in 1 .. Len(csv) :
                     ~csv[j].date.isna /\ dt_year(csv[j].date) = Cell(k[2])

\* C15 witness: the second of three records has no date, has a casualty and
\* a valid label; the other two were folded.
C15_Witness ==
    /\ script = "yearly" /\ pc = "done"
    /\ Len(csv) = 3 /\ csv[2].date.isna
    /\ HasCasualty(csv[2]) /\ CoarseCats(csv[2]) # {}
    /\ Len(df) = 2 /\ Cardinality(Keys) >= 2

\* the label slots the contract calls sentinels: missing, empty, blank, and
\* every spelling of 'unknown' and 'nan' of the label universe, spaces around
\* them included
SentinelLabels ==
    {NA, "", "   ", "unknown", "Unknown", "UNKNOWN", " unknown ",
     "nan", "NaN", "NAN", " nan"}

\* the categories of the slots of a record that are not sentinels
RealCats(row) ==
    { mapping_get(strip(row.labels[col])) :
        col \in { c \in vehicle_cols : row.labels[c] \notin SentinelLabels } }

\* C16 - Sentinel labels: in a fold step of the consolidated or the yearly
\* script a sentinel slot is not classified and does not count towards n:
\* each category of the non-sentinel slots gains count / n with n the number
\* of distinct categories of the non-sentinel slots alone, and every other
\* category, 'Other/Unknown' in particular, gains nothing (so the table's key
\* 'UNKNOWN' is never looked up).
C16_SentinelsDropped ==
    [][(FoldStep /\ script \in {"consolidated", "yearly"})
          => LET row == df[idx]
                 cats == RealCats(row)
                 n == Cardinality(cats)
                 y == BucketOf(script, row)
             IN  /\ Numeric(row)
                      => \A c \in cats :
                            /\ TallyNext(c, y).injured
                                 = RAdd(Tally(c, y).injured,
                                        RDiv(Scaled(script, row, row.injured), R(n)))
                            /\ TallyNext(c, y).killed
                                 = RAdd(Tally(c, y).killed,
                                        RDiv(Scaled(script, row, row.killed), R(n)))
                 /\ \A c \in (NamedCategories \cup {"Other/Unknown"}) \ cats :
                       TallyNext(c, y) = Tally(c, y)]_vars

\* C16 witness: the record with labels 'Bike', 'UNKNOWN', 'Moped' and injured
\* 1 was folded: n is 2, each of the two categories holds 1/2 and there is no
\* 'Other/Unknown' entry.
C16_Witness ==
    /\ script = "yearly" /\ pc = "done" /\ Len(df) = 1
    /\ df[1].labels[2] = "UNKNOWN" /\ df[1].injured = Cell(1)
    /\ Cardinality(RealCats(df[1])) = 2
    /\ \A c \in RealCats(df[1]) : Tally(c, df[1].YEAR.v).injured = Norm(1, 2)
    /\ "Other/Unknown" \notin DOMAIN yearly_data

\* C17 - Tally non-negativity: at every point of a run on records that pass
\* the loader filter (injured > 0 or killed > 0), one with a negative count
\* included, the injured and the killed field of every tally are >= 0.
C17_TalliesNonNegative ==
    \A k \in Keys :
        /\ ~RLt(Tally(k[1], k[2]).injured, Zero)
        /\ ~RLt(Tally(k[1], k[2]).killed, Zero)

-----------------------------------------------------------------------------
(* Structural defects of the input, rendering, termination.                *)

\* C18 - Structural input defects: in every script, when the input file is
\* not found, cannot be read as a table or lacks a required column, the run
\* goes from loading straight to its end, ends with a non-zero status, and
\* no aggregation has run (no record visited, every table empty).
C18_StructuralDefectsFatal ==
    file # "ok"
      => /\ pc \in {"load", "exit"}
         /\ pc = "exit" => exit_status # 0
         /\ visited = << >>
         /\ category_casualties = EmptyDict /\ yearly_data = EmptyDict
         /\ daily_counts = EmptyDict /\ yearly_counts = EmptyDict

\* C19 - Rendering frame: the chart and the report functions leave the table
\* the fold returned as it is: same category keys, same bucket keys, same
\* tallies; a lookup of a year a category does not have inserts nothing.
C19_RenderingKeepsTable ==
    [][(pc \in {"done", "charted"})
          => UNCHANGED << category_casualties, yearly_data >>]_vars

\* C19 witness: charts and report of the yearly script have run to the end on
\* a table in which some category lacks a year that another category has, so
\* absent years were looked up; the table is still the fold of the frame.
C19_Witness ==
    /\ script = "yearly" /\ pc = "exit" /\ exit_status = 0
    /\ \E c \in DOMAIN yearly_data :
          \E y \in all_years(yearly_data) : y \notin DOMAIN yearly_data[c]
    /\ yearly_data = Project(FoldUnscaled(script, df, Len(df)), 2025, projection_factor)

\* C20 - Single pass and termination: the loop body is given the records of
\* the frame in input order, none twice, and a run whose loop has started
\* reaches the point where the table is handed to the chart and report
\* functions, every record of the frame having been visited.
C20_EveryRecordFoldedOnce ==
    /\ [](visited = [k \in 1 .. Len(visited) |-> k])
    /\ (pc = "loop") ~> (pc = "done" /\ Len(visited) = Len(df))

-----------------------------------------------------------------------------
(* Frame of one fold step, the classifier tables, the category set.        *)

\* the (category, bucket) keys of the table after the step
KeysNext == KeysIn(script, category_casualties', yearly_data')

\* the (category, bucket) pairs whose tally the step creates, changes or removes
ChangedKeys ==
    { k \in Keys \cup KeysNext :
        \/ k \notin Keys
        \/ k \notin KeysNext
        \/ TallyNext(k[1], k[2]) # Tally(k[1], k[2]) }

\* the categories among them
ChangedCategories == { k[1] : k \in ChangedKeys }

\* C21 (as stated) - Bucket selection: in the aggregation by year, folding one
\* record changes only tallies whose bucket is the record's calendar year,
\* and changes the tallies of at least 1 and at most 5 categories.
C21_OneToFiveCategories ==
    [][YearlyFoldStep
         => /\ \A k \in ChangedKeys : k[2] = df[idx].YEAR.v
            /\ Cardinality(ChangedCategories) \in 1 .. 5]_vars

\* C21 (amended) - Bucket selection: in the aggregation by year, folding one
\* record changes only tallies whose bucket is the record's calendar year;
\* the categories whose tally changes are exactly the distinct categories of
\* the record when the record is added (numeric counts, at least one
\* resolved category, and in the bike script a year from 2020 on): between 1
\* and 5 of them, at most 3 in the bike script; for every other record no
\* tally changes at all.
C21_BucketOfRecord ==
    [][YearlyFoldStep
         => LET row == df[idx]
            IN  /\ \A k \in ChangedKeys : k[2] = row.YEAR.v
                /\ ChangedCategories
                     = IF Counted(script, row) THEN CatsOf(script, row) ELSE {}
                /\ Counted(script, row) => Cardinality(ChangedCategories) \in 1 .. 5
                /\ script = "bike" => Cardinality(ChangedCategories) <= 3]_vars

\* C21 witness: the yearly script has folded a record of 2024 and then a
\* record of 2023 with five distinct categories; bucket 2023 has exactly
\* those five categories and the 2024 tally is the first record's.
C21_Witness ==
    /\ script = "yearly" /\ pc = "loop" /\ idx = 3
    /\ df[1].YEAR.v = 2024 /\ df[2].YEAR.v = 2023
    /\ Cardinality(CoarseCats(df[2])) = 5
    /\ { k[1] : k \in { q \in Keys : q[2] = 2023 } } = CoarseCats(df[2])
    /\ \A c \in CoarseCats(df[1]) :
          Tally(c, 2024) = ShareOf(script, df[1], c, 2024)
    /\ Counted(script, df[1])

\* C22 - Both spellings present: for every key of the coarse classifier
\* table, the all-caps spelling of the key is a key too and has the same
\* category, so the classifier gives a label and its all-caps form the same
\* result.
C22_BothSpellings ==
    (pc = "classified" /\ script # "bike" /\ raw_label \in DOMAIN category_mapping)
      => /\ upper(raw_label) \in DOMAIN category_mapping
         /\ category_mapping[upper(raw_label)] = category_mapping[raw_label]
         /\ coarse_slot(upper(raw_label)) = slot_out

\* the seven categories of the coarse rollup
CoarseCategories ==
    {"Passenger Vehicles", "Taxi/Livery", "Large/Commercial Vehicles", "Motorcycles",
     "Bicycles/Scooters", "Van", "Other/Unknown"}

\* C23 - Category set: whatever records the consolidated or the yearly script
\* has folded, every category key of its table is one of the seven coarse
\* categories; and every label the fine-grained bike table maps is mapped by
\* the coarse classifier to Bicycles/Scooters.
C23_SevenCategories ==
    /\ script \in {"consolidated", "yearly"}
         => /\ DOMAIN category_casualties \subseteq CoarseCategories
            /\ DOMAIN yearly_data \subseteq CoarseCategories
    /\ \A label \in DOMAIN bike_mapping :
          coarse_slot(label) = << "Bicycles/Scooters" >>

\* C23 witness: the consolidated script has folded three records that
\* between them resolve to all seven categories, one of them through the
\* fallback ('Car' is not a key).
C23_Witness ==
    /\ script = "consolidated" /\ pc = "done" /\ Len(df) = 3
    /\ DOMAIN category_casualties = CoarseCategories
    /\ \E k \in 1 .. 3 : \E col \in vehicle_cols : df[k].labels[col] = "Car"

-----------------------------------------------------------------------------
(* Whole-table properties of the coarse fold.                              *)

\* the sums of the injured and of the killed values (a value that is not a
\* number counting as 0) of the first k records that have at least one
\* non-sentinel label
RECURSIVE LabelledSum(_, _)
LabelledSum(rows, k) ==
    IF k = 0 THEN NewTally
    ELSE LET rest == LabelledSum(rows, k - 1)
             row == rows[k]
         IN  IF AllSentinel(row) THEN rest
             ELSE [injured |-> RAdd(rest.injured, R(Default0(row.injured).v)),
                   killed  |-> RAdd(rest.killed, R(Default0(row.killed).v))]

\* C24 - Global conservation: after the consolidated script has folded any
\* prefix of the records, the injured tallies of all categories sum to the
\* sum of the injured values of the folded records that have at least one
\* non-sentinel label, and likewise for killed.
C24_GlobalConservation ==
    (script = "consolidated" /\ pc \in {"loop", "done"})
      => /\ InjuredTotal = LabelledSum(df, idx - 1).injured
         /\ KilledTotal = LabelledSum(df, idx - 1).killed

\* the records of a file with the records at positions i and j exchanged
Swap(rows, i, j) ==
    [k \in 1 .. Len(rows) |-> IF k = i THEN rows[j] ELSE IF k = j THEN rows[i] ELSE rows[k]]

\* the frame script s loads from a file
FrameOf(s, rows) ==
    CASE s = "consolidated" -> load_consolidated(rows)
      [] s = "yearly" -> load_yearly(rows)
      [] s = "bike" -> load_bike(rows)

\* the table after the loop body of script s has run on the first k records
\* of a frame
RECURSIVE FoldAll(_, _, _, _)
FoldAll(s, frame, factor, k) ==
    IF k = 0 THEN EmptyDict
    ELSE CHOOSE after \in
            { CASE s = "consolidated" -> consolidated_fold(before, frame[k])
                [] s = "yearly" -> yearly_fold(before, frame[k], factor)
                [] s = "bike" -> bike_fold(before, frame[k], factor) :
                before \in { FoldAll(s, frame, factor, k - 1) } } : TRUE

\* the table script s returns for a file
FinalTable(s, rows) ==
    LET frame == FrameOf(s, rows)
    IN  FoldAll(s, frame, factor_of(days_since_2025(max_date(frame))), Len(frame))

\* the same for the consolidated script's binary64 values
RECURSIVE FoldAll64(_, _)
FoldAll64(frame, k) ==
    IF k = 0 THEN EmptyDict
    ELSE CHOOSE after \in
            { consolidated_fold_64(before, frame[k]) :
                before \in { FoldAll64(frame, k - 1) } } : TRUE

FinalTable64(rows) == FoldAll64(load_consolidated(rows), Len(load_consolidated(rows)))

\* the table the script has built
CurrentTable == IF script = "consolidated" THEN category_casualties ELSE yearly_data

\* a script has returned its table
Folded == script \in Scripts /\ pc = "done"

\* C25 (as stated) - Order independence: the table a script returns, every
\* tally as the script holds it, is the same when any two records of the
\* input are exchanged (every permutation is a sequence of exchanges, and
\* every file of the model is checked).
C25_OrderIndependent ==
    Folded
      => \A i, j \in 1 .. Len(csv) :
            i < j => /\ FinalTable(script, Swap(csv, i, j)) = CurrentTable
                     /\ script = "consolidated"
                          => FinalTable64(Swap(csv, i, j)) = category_casualties_64

\* C25 (amended) - Order independence up to rounding: when any two records
\* of the input are exchanged, the returned table has the same (category,
\* bucket) keys and every tally is the same as an exact sum of the records'
\* shares; the floating-point value of a tally may differ.
C25_OrderIndependentExact ==
    Folded
      => \A i, j \in 1 .. Len(csv) :
            i < j => /\ FinalTable(script, Swap(csv, i, j)) = CurrentTable
                     /\ script = "consolidated"
                          => DOMAIN FinalTable64(Swap(csv, i, j))
                               = DOMAIN category_casualties_64

\* C25 witness: the consolidated script has folded two records with injured 3
\* over two categories and then one with injured 1 over three; Taxi/Livery
\* holds 10/3 as an exact sum, and with the last two records exchanged its
\* float value is a different one.
C25_Witness ==
    /\ script = "consolidated" /\ pc = "done" /\ Len(csv) = 3
    /\ csv[1] = csv[2] /\ csv[2] # csv[3]
    /\ Tally("Taxi/Livery", 0).injured = Norm(10, 3)
    /\ FinalTable(script, Swap(csv, 2, 3)) = category_casualties
    /\ FinalTable64(Swap(csv, 2, 3))["Taxi/Livery"].injured
         # category_casualties_64["Taxi/Livery"].injured

-----------------------------------------------------------------------------
(* The projection factor and the bike-type table.                          *)

\* C26 - The projection factor is never below 1: the observed days computed
\* from the latest record date are either not positive (factor 1) or at most
\* 365.
C26_FactorAtLeastOne ==
    InYearlyFold
      => /\ ~RLt(projection_factor, R(1))
         /\ Positive(days_in_2025) => days_in_2025.v <= 365

\* the latest day offset among the records of a non-empty frame
LatestDay(frame) == Max({ frame[k].date.v : k \in 1 .. Len(frame) })

\* C27 - In the bike-type aggregation a record of a year before 2020 leaves
\* the table unchanged, so the table never has a bucket below 2020, while
\* the observed days are counted up to the latest date of all records of the
\* frame, those before 2020 included.
C27_Before2020Skipped ==
    /\ [][(FoldStep /\ script = "bike" /\ df[idx].YEAR.v < 2020)
            => UNCHANGED yearly_data]_vars
    /\ [](script = "bike" => \A k \in Keys : k[2] >= 2020)
    /\ []((script = "bike" /\ pc \in {"loop", "done"} /\ df # << >>)
            => days_in_2025 = Cell(LatestDay(df) - YearStart[2025] + 1))

\* C27 witness: the bike script has folded a frame whose only record is of
\* 2019; the table is empty and the observed days were counted from that
\* record's date.
C27_Witness ==
    /\ script = "bike" /\ pc = "done" /\ Len(df) = 1
    /\ df[1].YEAR.v = 2019 /\ BikeCats(df[1]) # {} /\ Numeric(df[1])
    /\ yearly_data = EmptyDict
    /\ days_in_2025 = Cell(df[1].date.v + 1)
    /\ days_in_2025.v < 0

-----------------------------------------------------------------------------
(* The per-vehicle-type script: the split over slots and the cleaning.     *)

\* the valid label slots of a record
ValidSlots(row) == { col \in vehicle_cols : ~IsSentinel(row.labels[col]) }

\* the valid slots of a record that hold the raw name
SlotsOf(row, name) == { col \in ValidSlots(row) : strip(row.labels[col]) = name }

\* injured / killed as the loop body of extract_vehicle_types holds them
LoopCount(row, count) ==
    IF row.injured.kind = "number" /\ row.killed.kind = "number"
        THEN R(count.v) ELSE Zero

\* k / n of a count
SlotShare(row, name, count) ==
    RDiv(RMul(R(Cardinality(SlotsOf(row, name))), LoopCount(row, count)),
         R(Cardinality(ValidSlots(row))))

\* the tally of a name in a flat table; zero when absent
TallyOf(table, name) == IF name \in DOMAIN table THEN table[name] ELSE NewTally

\* the raw names of the table and of the record being folded
RawNames == DOMAIN vehicle_casualties \cup { strip(df[idx].labels[col]) : col \in vehicle_cols }

\* one iteration of the loop of extract_vehicle_types
ExtractStep == script = "vehicle_types" /\ FoldStep

\* the call of clean_vehicle_types
CleanStep == pc = "extracted" /\ pc' = "done"

\* the raw names that are merged into a cleaned name
MergedInto(table, clean_name) ==
    { v \in DOMAIN table :
        \/ v \in DOMAIN vehicle_mapping /\ vehicle_mapping[v] = clean_name
        \/ v \notin DOMAIN vehicle_mapping /\ v = clean_name }

\* the sum of one field over the names of a flat table
FieldSum(table, names, field) ==
    SumOver([v \in names |-> IF field = "injured" THEN table[v].injured
                                                  ELSE table[v].killed], names)

\* C28 - Per-vehicle-type script: an iteration of extract_vehicle_types on a
\* record with n >= 1 valid label slots adds to every raw name k/n of the
\* record's injured and killed, k the number of valid slots the name fills
\* (no de-duplication), and changes nothing for a record without a valid slot;
\* clean_vehicle_types merges the raw names into cleaned names: every cleaned
\* tally is the sum of the tallies of the raw names mapped to it, the sums of
\* injured and of killed over all keys are the same before and after, and a
\* name that is no key of the mapping keeps its own name.
C28_SlotSplitAndCleaning ==
    /\ [][ExtractStep =>
            IF ValidSlots(df[idx]) = {}
              THEN vehicle_casualties' = vehicle_casualties
              ELSE \A name \in RawNames :
                     /\ TallyOf(vehicle_casualties', name).injured
                          = RAdd(TallyOf(vehicle_casualties, name).injured,
                                 SlotShare(df[idx], name, df[idx].injured))
                     /\ TallyOf(vehicle_casualties', name).killed
                          = RAdd(TallyOf(vehicle_casualties, name).killed,
                                 SlotShare(df[idx], name, df[idx].killed))]_vars
    /\ [][CleanStep =>
            /\ \A c \in DOMAIN cleaned_vehicle_data' :
                 /\ MergedInto(vehicle_casualties, c) # {}
                 /\ cleaned_vehicle_data'[c].injured
                      = FieldSum(vehicle_casualties,
                                 MergedInto(vehicle_casualties, c), "injured")
                 /\ cleaned_vehicle_data'[c].killed
                      = FieldSum(vehicle_casualties,
                                 MergedInto(vehicle_casualties, c), "killed")
            /\ FieldSum(cleaned_vehicle_data', DOMAIN cleaned_vehicle_data', "injured")
                 = FieldSum(vehicle_casualties, DOMAIN vehicle_casualties, "injured")
            /\ FieldSum(cleaned_vehicle_data', DOMAIN cleaned_vehicle_data', "killed")
                 = FieldSum(vehicle_casualties, DOMAIN vehicle_casualties, "killed")
            /\ \A v \in DOMAIN vehicle_casualties :
                 v \notin DOMAIN vehicle_mapping
                    => v \in DOMAIN cleaned_vehicle_data']_vars

\* C28 witness: (3, 1, Sedan, Sedan, Taxi) and (2, 1, Sedan, SEDAN, ' Sedan ',
\* Pedicab) were folded and cleaned: 'Sedan' filled 2 of 3 and 2 of 4 slots
\* (injured 2 + 1), 'SEDAN' is merged into 'Sedan', 'Pedicab' keeps its name.
C28_Witness ==
    /\ script = "vehicle_types" /\ pc = "done" /\ Len(df) = 2
    /\ Cardinality(SlotsOf(df[1], "Sedan")) = 2
    /\ Cardinality(ValidSlots(df[1])) = 3
    /\ vehicle_casualties["Sedan"].injured = R(3)
    /\ vehicle_casualties["SEDAN"].injured = Norm(1, 2)
    /\ cleaned_vehicle_data["Sedan"] = [injured |-> Norm(7, 2), killed |-> Norm(17, 12)]
    /\ cleaned_vehicle_data["Pedicab"] = [injured |-> Norm(1, 2), killed |-> Norm(1, 4)]
    /\ "SEDAN" \notin DOMAIN cleaned_vehicle_data

-----------------------------------------------------------------------------
(* The casualty rates per ridership.                                       *)

\* the years with casualty data for at least one bike type
YearsWithCasualties ==
    UNION { DOMAIN bike_casualties[t] : t \in DOMAIN bike_casualties }

\* the years calculate_casualty_rates has an entry for
RatedYears == { y \in DOMAIN ridership : ridership[y] > 0 } \cap YearsWithCasualties

\* the sum of one count of a year over the bike types that have the year
RECURSIVE TypeSum(_, _, _)
TypeSum(year, types, field) ==
    IF types = {} THEN 0
    ELSE LET t == CHOOSE t \in types : TRUE
             own == IF year \notin DOMAIN bike_casualties[t] THEN 0
                    ELSE IF field = "injured" THEN bike_casualties[t][year].injured
                    ELSE bike_casualties[t][year].killed
         IN  own + TypeSum(year, types \ {t}, field)

\* C29 - calculate_casualty_rates returns one entry per year, in strictly
\* ascending year order, exactly for the years of the ridership table with
\* ridership > 0 that have casualty data for at least one bike type; an
\* entry's injured and killed are the sums over all bike types for its year,
\* casualties = injured + killed, and is_projected is true exactly for 2025.
C29_RateEntries ==
    pc = "returned" =>
        /\ \A i, j \in 1 .. Len(casualty_rates) :
              i < j => casualty_rates[i].year < casualty_rates[j].year
        /\ { casualty_rates[i].year : i \in 1 .. Len(casualty_rates) } = RatedYears
        /\ \A i \in 1 .. Len(casualty_rates) :
              LET entry == casualty_rates[i]
              IN  /\ entry.injured
                        = TypeSum(entry.year, DOMAIN bike_casualties, "injured")
                  /\ entry.killed
                        = TypeSum(entry.year, DOMAIN bike_casualties, "killed")
                  /\ entry.casualties = entry.injured + entry.killed
                  /\ entry.rides = ridership[entry.year]
                  /\ entry.is_projected <=> (entry.year = 2025)

\* C29 witness: the function returned for a ridership table with 2019, 2024
\* (ridership 0) and 2025 and the casualty tables of E-Bike and E-Scooter for
\* 2024 and 2025: the only entry is the one of 2025, projected, injured
\* 125 + 53, killed 3 + 0.
C29_Witness ==
    /\ pc = "returned"
    /\ DOMAIN ridership = {2019, 2024, 2025} /\ ridership[2024] = 0
    /\ DOMAIN bike_casualties = {"E-Bike", "E-Scooter"}
    /\ YearsWithCasualties = {2024, 2025}
    /\ Len(casualty_rates) = 1
    /\ casualty_rates[1].year = 2025 /\ casualty_rates[1].is_projected
    /\ casualty_rates[1].injured = 178 /\ casualty_rates[1].killed = 3
    /\ casualty_rates[1].casualties = 181

-----------------------------------------------------------------------------
(* The report step on the table the fold returned.                         *)

\* C30 - Report robustness: for every table the fold of the consolidated or
\* the yearly script returns, the empty table and a table whose grand total
\* injured + killed is 0 included, the report function given that table does
\* not raise (no division by a zero grand total, no min or max of no years).
C30_ReportNeverRaises ==
    (pc = "done" /\ script \in {"consolidated", "yearly"})
        => ~report_raises(script, category_casualties, yearly_data)
=============================================================================
